---- MODULE Spec2Model ----
(***************************************************************************)
(* Model of the RAG application:                                           *)
(*   - the streaming chat handler  src/app/api/chat/route.ts  (POST)       *)
(*   - the text preprocessor and recursive chunker                         *)
(*     src/lib/processing/chunk.ts                                         *)
(*   - the document-processing handler (process-document POST) and the     *)
(*     conversion of partitioned elements into chunks                      *)
(*   - the citation renderer  src/components/chat-interface.tsx            *)
(*   - the history block of the prompt (route.ts), the upload of a         *)
(*     selection of files (document-upload.tsx) and the reader of the      *)
(*     event stream (chat-interface.tsx handleSubmit)                      *)
(* Text is a sequence of one-character strings; the characters that the    *)
(* code treats specially are named below.                                  *)
(***************************************************************************)
EXTENDS Integers, Sequences, FiniteSets, TLC

VARIABLES
    \* ---- chat handler (route.ts POST) ----
    pc,            \* position of the handler
    reqMessage,    \* TRUE iff the request body carries a message
    reqChatId,     \* chatId of the request body (NoChat when absent)
    currentChatId, \* route.ts:51 currentChatId
    chats,         \* rows of table chats (their ids)
    messages,      \* rows of table messages, in insertion order
    touched,       \* chats whose updated_at this request has set
    events,        \* events enqueued on the response stream, in order
    fullResponse,  \* route.ts:227 fullResponse
    generated,     \* fragments the generator has yielded so far, in order
    cancelled,     \* the client has cancelled the response stream
    cancelledAt,   \* number of fragments yielded when the client cancelled (-1: not yet)
    ops,           \* operations the handler has issued, in order
    response,      \* kind of HTTP response returned
    \* ---- retrieval of the chat handler (route.ts:84-208) ----
    readyDocs,     \* number of the user's documents whose status is ready
    docCount,      \* route.ts:85 docCount (Null when the count query reports none)
    hasDocuments,  \* route.ts:91 hasDocuments
    matches,       \* route.ts:93 matches
    documentMap,   \* route.ts:117 documentMap (ids whose filename was found)
    numberedSources, \* route.ts:133 numberedSources
    template,      \* which of the three prompts of route.ts:163-208 was built
    calls,         \* external services called for retrieval
    searchError,   \* the similarity search has failed (route.ts:100 searchError, or a rejection)
    \* ---- chunker (chunk.ts) ----
    cpc,           \* position of the chunking run
    text,          \* input text
    chunkSize,     \* options.chunkSize
    chunkOverlap,  \* options.chunkOverlap
    processedText, \* chunk.ts:265 processedText
    rawChunks,     \* chunk.ts:272 rawChunks
    mergedChunks,  \* chunk.ts:275 mergedChunks
    result,        \* value returned by chunkText
    elements,      \* texts of the elements returned by the partition service
    converted,     \* value returned by convertToTextChunks
    closes,        \* what mergeChunks did each time it closed a chunk
    \* ---- document processing (process-document POST) ----
    docStatus,     \* status column of each document
    embeddings,    \* rows of table embeddings
    dpc,           \* position of each handler
    dreq,          \* documentId of each request (NoDoc when absent)
    docChunks,     \* chunks of each handler
    cursor,        \* position of each handler in its loop over chunks
    dresp,         \* HTTP status each handler returned (0: none yet)
    failed,        \* what has failed in each handler so far
    \* ---- citation renderer (chat-interface.tsx) ----
    rpc,           \* position of the rendering
    msgContent,    \* content of the message
    msgSources,    \* numbers of the sources attached to the message
    rendered,      \* rendered parts, in order
    \* ---- history block of the prompt (route.ts:147-156) ----
    hpc,           \* position of the building of the history block
    conversationHistory, \* conversationHistory of the request body
    historyContext, \* route.ts:148 historyContext
    \* ---- upload of a selection of files (document-upload.tsx) ----
    upc,           \* position of handleFileSelect and of the uploadFile it awaits
    files,         \* number of files of the selection
    fileNo,        \* ordinal of the file being uploaded (0: none yet)
    uploadedFiles, \* document-upload.tsx:17 uploadedFiles, the rows shown
    \* ---- reader of the event stream (chat-interface.tsx handleSubmit) ----
    kpc,           \* position of the reader
    sent,          \* events the server has enqueued on the response, in order
    wire,          \* characters of the response body not yet read
    assistantMessage, \* the assistant message shown: content and sources
    clientSources, \* chat-interface.tsx:217 sources
    handled        \* types of the events the reader has handled, in order

chatVars == <<pc, reqMessage, reqChatId, currentChatId, chats, messages, touched,
              events, fullResponse, generated, cancelled, cancelledAt, ops, response>>
retrVars == <<readyDocs, docCount, hasDocuments, matches, documentMap, numberedSources,
              template, calls, searchError>>
chunkVars == <<cpc, text, chunkSize, chunkOverlap, processedText, rawChunks, mergedChunks,
               result, elements, converted, closes>>
docVars == <<docStatus, embeddings, dpc, dreq, docChunks, cursor, dresp, failed>>
citeVars == <<rpc, msgContent, msgSources, rendered>>
histVars == <<hpc, conversationHistory, historyContext>>
uploadVars == <<upc, files, fileNo, uploadedFiles>>
readerVars == <<kpc, sent, wire, assistantMessage, clientSources, handled>>
vars == <<chatVars, retrVars, chunkVars, docVars, citeVars, histVars, uploadVars, readerVars>>
nonChatVars == <<chunkVars, docVars, citeVars, histVars, uploadVars, readerVars>>
nonChunkVars == <<chatVars, retrVars, docVars, citeVars, histVars, uploadVars, readerVars>>
nonDocVars == <<chatVars, retrVars, chunkVars, citeVars, histVars, uploadVars, readerVars>>
nonCiteVars == <<chatVars, retrVars, chunkVars, docVars, histVars, uploadVars, readerVars>>
nonHistVars == <<chatVars, retrVars, chunkVars, docVars, citeVars, uploadVars, readerVars>>
nonUploadVars == <<chatVars, retrVars, chunkVars, docVars, citeVars, histVars, readerVars>>
nonReaderVars == <<chatVars, retrVars, chunkVars, docVars, citeVars, histVars, uploadVars>>

(***************************************************************************)
(* Bounds                                                                  *)
(***************************************************************************)
MaxFrags == 3
\* longest input text of the chunker, largest chunkSize and chunkOverlap
MaxTextLen == 5
MaxChunkSize == 3
MaxChunkOverlap == 2
\* longest input text of the preprocessor
MaxPreLen == 6
\* most pieces handed to one call of mergeChunks, its largest chunkSize and
\* chunkOverlap
MaxPieces == 3
MaxMergeSize == 5
MaxMergeOverlap == 4
\* most elements the partition service returns
MaxElements == 3
\* most ready documents of the user, most matches the search returns
MaxReadyDocs == 1
MaxMatches == 2
\* most chunks of one document
MaxChunks == 2
\* most tokens of a rendered message, most sources of a message
MaxTokens == 3
MaxSources == 2

(***************************************************************************)
(* Chat handler                                                            *)
(***************************************************************************)
NoChat == 0
KnownChat == 1
NewChat == 2
UnknownChat == 9
\* docCount when the count query resolves without a count
Null == -1

\* values of chunk.text() the generation stream may yield
Fragments == { <<>>, <<"a">>, <<"b", "c">> }

\* outcome of an awaited call to the datastore client: it resolves without an
\* error, resolves with an error object, or rejects
Outcomes == {"ok", "error", "throw"}

\* a message written before this request
PriorMessage == [chat |-> KnownChat, role |-> "assistant", content |-> <<"a">>, own |-> FALSE]

MetadataEvent == [type |-> "metadata", text |-> <<>>]
ChunkEvent(t) == [type |-> "chunk", text |-> t]
DoneEvent == [type |-> "done", text |-> <<>>]
ErrorEvent == [type |-> "error", text |-> <<>>]

ChatInit ==
    /\ pc = "validate"
    /\ reqMessage \in BOOLEAN
    /\ reqChatId \in {NoChat, KnownChat, UnknownChat}
    /\ currentChatId = NoChat
    /\ chats = {KnownChat}
    /\ messages \in {<<>>, <<PriorMessage>>}
    /\ touched = {}
    /\ events = <<>>
    /\ fullResponse = <<>>
    /\ generated = <<>>
    /\ cancelled = FALSE
    /\ cancelledAt = -1
    /\ ops = <<>>
    /\ response = "none"
    /\ readyDocs \in 0..MaxReadyDocs
    /\ docCount = Null
    /\ hasDocuments = FALSE
    /\ matches = <<>>
    /\ documentMap = {}
    /\ numberedSources = <<>>
    /\ template = "none"
    /\ calls = {}
    /\ searchError = FALSE

ChatIdle ==
    /\ pc = "idle"
    /\ reqMessage = FALSE
    /\ reqChatId = NoChat
    /\ currentChatId = NoChat
    /\ chats = {}
    /\ messages = <<>>
    /\ touched = {}
    /\ events = <<>>
    /\ fullResponse = <<>>
    /\ generated = <<>>
    /\ cancelled = FALSE
    /\ cancelledAt = -1
    /\ ops = <<>>
    /\ response = "none"
    /\ readyDocs = 0
    /\ docCount = Null
    /\ hasDocuments = FALSE
    /\ matches = <<>>
    /\ documentMap = {}
    /\ numberedSources = <<>>
    /\ template = "none"
    /\ calls = {}
    /\ searchError = FALSE

\* controller.enqueue (throws once the stream is no longer readable)
CanEnqueue == ~cancelled

\* route.ts:256-260: the catch block of start(): enqueue the error event and close;
\* when the stream was cancelled the enqueue itself throws and start() rejects
\* (issued: the operations issued up to the throw)
CatchStreaming(issued) ==
    IF CanEnqueue
    THEN /\ events' = Append(events, ErrorEvent)
         /\ ops' = Append(issued, "error")
         /\ pc' = "closed"
    ELSE /\ events' = events
         /\ ops' = issued
         /\ pc' = "crashed"

\* route.ts:41-48: the body is read and a request without a message is rejected
Validate ==
    /\ pc = "validate"
    /\ IF ~reqMessage
       THEN /\ pc' = "rejected"
            /\ response' = "400"
       ELSE /\ pc' = IF reqChatId = NoChat THEN "createChat" ELSE "saveUser"
            /\ response' = response
    /\ currentChatId' = reqChatId
    /\ UNCHANGED <<reqMessage, reqChatId, chats, messages, touched, events, fullResponse,
                   generated, cancelled, cancelledAt, ops>>
    /\ UNCHANGED retrVars
    /\ UNCHANGED nonChatVars

\* route.ts:52-69: a new chat is created when the request names none
CreateChat ==
    /\ pc = "createChat"
    /\ \E o \in Outcomes :
         \/ /\ o = "ok"
            /\ chats' = chats \cup {NewChat}
            /\ currentChatId' = NewChat
            /\ ops' = Append(ops, "createChat")
            /\ pc' = "saveUser"
            /\ response' = response
         \/ /\ o \in {"error", "throw"}
            /\ pc' = "rejected"
            /\ response' = "500"
            /\ ops' = Append(ops, "createChat")
            /\ UNCHANGED <<chats, currentChatId>>
    /\ UNCHANGED <<reqMessage, reqChatId, messages, touched, events, fullResponse,
                   generated, cancelled, cancelledAt>>
    /\ UNCHANGED retrVars
    /\ UNCHANGED nonChatVars

\* insert into messages: the row lands only when the call resolves without error,
\* and chat_id must reference a row of chats
InsertLands(o, chat) == o = "ok" /\ chat \in chats

\* route.ts:71-82: the user message is inserted; a reported error is logged only
SaveUserMessage ==
    /\ pc = "saveUser"
    /\ \E o \in Outcomes :
         /\ ops' = Append(ops, "userWrite")
         /\ messages' = IF InsertLands(o, currentChatId)
                        THEN Append(messages, [chat |-> currentChatId, role |-> "user",
                                               content |-> <<"q">>, own |-> TRUE])
                        ELSE messages
         /\ IF o = "throw"
            THEN pc' = "rejected" /\ response' = "500"
            ELSE pc' = "retrieve" /\ response' = response
    /\ UNCHANGED <<reqMessage, reqChatId, currentChatId, chats, touched, events,
                   fullResponse, generated, cancelled, cancelledAt>>
    /\ UNCHANGED retrVars
    /\ UNCHANGED nonChatVars

\* route.ts:91: hasDocuments, with zero documents counted as some
HasDocuments_ZeroCounts(count) == count >= 0

\* route.ts:91: hasDocuments = (docCount ?? 0) > 0
HasDocuments(count) == (IF count = Null THEN 0 ELSE count) > 0

\* route.ts:97-113: the lists the search can return for a user with n ready
\* documents: at most MaxMatches chunks of those documents, each chunk of
\* the store at most once, most similar first
MatchLists(n) ==
    UNION { { [i \in 1..len |-> [document_id |-> ids[i], content |-> i,
                                 similarity |-> 100 - i]] : ids \in [1..len -> 1..n] } :
            len \in 0..MaxMatches }

\* route.ts:116 documentIds
DocumentIds(ms) == { ms[i].document_id : i \in 1..Len(ms) }

\* route.ts:133-139 with matches of one document merged into one source
NumberedSources_Merged(ms, map) ==
    LET first == SelectSeq([i \in 1..Len(ms) |-> i],
                           LAMBDA i : \A j \in 1..(i - 1) :
                                          ms[j].document_id # ms[i].document_id)
    IN  [n \in 1..Len(first) |->
            [number |-> n,
             document_id |-> ms[first[n]].document_id,
             filename |-> IF ms[first[n]].document_id \in map
                          THEN "file" ELSE "Unknown document",
             content |-> ms[first[n]].content,
             similarity |-> ms[first[n]].similarity]]

\* route.ts:133-139 numberedSources
NumberedSources(ms, map) ==
    [i \in 1..Len(ms) |->
        [number |-> i,
         document_id |-> ms[i].document_id,
         filename |-> IF ms[i].document_id \in map THEN "file" ELSE "Unknown document",
         content |-> ms[i].content,
         similarity |-> ms[i].similarity]]

\* route.ts:163-208 with the grounded prompt chosen whenever documents exist
SelectTemplate_NoSourceTest(hasDocs, srcs) ==
    IF hasDocs THEN "grounded" ELSE "no-documents"

\* route.ts:163-208: which prompt is built
SelectTemplate(hasDocs, srcs) ==
    IF hasDocs /\ Len(srcs) > 0 THEN "grounded"
    ELSE IF hasDocs THEN "no-relevant-match"
    ELSE "no-documents"

\* a rejected call to a service is caught by the outer catch (route.ts:272)
CatchRetrieval ==
    /\ pc' = "rejected"
    /\ response' = "500"

\* route.ts:84-95: the count of ready documents; the error of the query is
\* not looked at, a missing count reads as zero
CountDocs ==
    /\ pc = "retrieve"
    /\ \E o \in Outcomes :
         IF o = "throw"
         THEN CatchRetrieval /\ UNCHANGED <<docCount, hasDocuments>>
         ELSE /\ docCount' = IF o = "ok" THEN readyDocs ELSE Null
              /\ hasDocuments' = HasDocuments(docCount')
              /\ pc' = IF hasDocuments' THEN "embedQuery" ELSE "start"
              /\ response' = response
    /\ UNCHANGED <<reqMessage, reqChatId, currentChatId, chats, messages, touched, events,
                   fullResponse, generated, cancelled, cancelledAt, ops>>
    /\ UNCHANGED <<readyDocs, matches, documentMap, numberedSources, template, calls,
                   searchError>>
    /\ UNCHANGED nonChatVars

\* route.ts:95-97: the embedding of the query
EmbedQuery ==
    /\ pc = "embedQuery"
    /\ calls' = calls \cup {"embed"}
    /\ \E o \in {"ok", "throw"} :
         IF o = "throw" THEN CatchRetrieval
         ELSE pc' = "search" /\ response' = response
    /\ UNCHANGED <<reqMessage, reqChatId, currentChatId, chats, messages, touched, events,
                   fullResponse, generated, cancelled, cancelledAt, ops>>
    /\ UNCHANGED <<readyDocs, docCount, hasDocuments, matches, documentMap, numberedSources,
                   template, searchError>>
    /\ UNCHANGED nonChatVars

\* route.ts:99-113: the similarity search; a reported error leaves matches empty
Search ==
    /\ pc = "search"
    /\ calls' = calls \cup {"search"}
    /\ \E o \in Outcomes :
         /\ searchError' = (o # "ok")
         /\ IF o = "throw" THEN CatchRetrieval /\ matches' = matches
            ELSE
              /\ IF o = "ok" THEN matches' \in MatchLists(readyDocs) ELSE matches' = <<>>
              /\ pc' = IF DocumentIds(matches') # {} THEN "filenames" ELSE "start"
              /\ response' = response
    /\ UNCHANGED <<reqMessage, reqChatId, currentChatId, chats, messages, touched, events,
                   fullResponse, generated, cancelled, cancelledAt, ops>>
    /\ UNCHANGED <<readyDocs, docCount, hasDocuments, documentMap, numberedSources, template>>
    /\ UNCHANGED nonChatVars

\* route.ts:115-130: the filenames of the matched documents; without data the
\* map stays empty
Filenames ==
    /\ pc = "filenames"
    /\ \E o \in Outcomes :
         IF o = "throw" THEN CatchRetrieval /\ documentMap' = documentMap
         ELSE /\ documentMap' = IF o = "ok" THEN DocumentIds(matches) ELSE {}
              /\ pc' = "start"
              /\ response' = response
    /\ UNCHANGED <<reqMessage, reqChatId, currentChatId, chats, messages, touched, events,
                   fullResponse, generated, cancelled, cancelledAt, ops>>
    /\ UNCHANGED <<readyDocs, docCount, hasDocuments, matches, numberedSources, template,
                   calls, searchError>>
    /\ UNCHANGED nonChatVars

\* route.ts:84-130: ready-document count, query embedding, search and filenames
Retrieve ==
    \/ CountDocs
    \/ EmbedQuery
    \/ Search
    \/ Filenames

\* route.ts:132-226 and 264: the numbered sources and the prompt are built,
\* the stream is constructed, start() enqueues the metadata event and calls
\* generateContentStream; the response is returned
StartStream ==
    /\ pc = "start"
    /\ numberedSources' = NumberedSources(matches, documentMap)
    /\ template' = SelectTemplate(hasDocuments, numberedSources')
    /\ events' = Append(events, MetadataEvent)
    /\ ops' = Append(ops, "metadata")
    /\ response' = "stream"
    /\ pc' = "genStart"
    /\ UNCHANGED <<reqMessage, reqChatId, currentChatId, chats, messages, touched,
                   fullResponse, generated, cancelled, cancelledAt>>
    /\ UNCHANGED <<readyDocs, docCount, hasDocuments, matches, documentMap, calls,
                   searchError>>
    /\ UNCHANGED nonChatVars

\* route.ts:226: await model.generateContentStream(prompt) resolves or rejects
GenStart ==
    /\ pc = "genStart"
    /\ \E o \in {"ok", "throw"} :
         IF o = "throw"
         THEN CatchStreaming(ops)
         ELSE pc' = "generating" /\ UNCHANGED <<events, ops>>
    /\ UNCHANGED <<reqMessage, reqChatId, currentChatId, chats, messages, touched,
                   fullResponse, generated, cancelled, cancelledAt, response>>
    /\ UNCHANGED retrVars
    /\ UNCHANGED nonChatVars

\* mutant: the test "if (text)" is missing, empty fragments are forwarded too
ForwardFragment_NoTest(t) ==
    /\ fullResponse' = fullResponse \o t
    /\ IF CanEnqueue
       THEN /\ events' = Append(events, ChunkEvent(t))
            /\ ops' = Append(ops, "chunk")
            /\ pc' = pc
       ELSE CatchStreaming(ops)

\* route.ts:229-235, one iteration: the next fragment is appended to fullResponse
\* and enqueued as a chunk event when it is not empty
ForwardFragment(t) ==
    IF t = <<>>
    THEN /\ fullResponse' = fullResponse
         /\ UNCHANGED <<events, ops, pc>>
    ELSE /\ fullResponse' = fullResponse \o t
         /\ IF CanEnqueue
            THEN /\ events' = Append(events, ChunkEvent(t))
                 /\ ops' = Append(ops, "chunk")
                 /\ pc' = pc
            ELSE CatchStreaming(ops)

GenYield ==
    /\ pc = "generating"
    /\ Len(generated) < MaxFrags
    /\ \E t \in Fragments :
         /\ generated' = Append(generated, t)
         /\ ForwardFragment(t)
    /\ UNCHANGED <<reqMessage, reqChatId, currentChatId, chats, messages, touched,
                   cancelled, cancelledAt, response>>
    /\ UNCHANGED retrVars
    /\ UNCHANGED nonChatVars

\* route.ts:229: the generation stream rejects while it is iterated
GenFail ==
    /\ pc = "generating"
    /\ CatchStreaming(ops)
    /\ UNCHANGED <<reqMessage, reqChatId, currentChatId, chats, messages, touched,
                   fullResponse, generated, cancelled, cancelledAt, response>>
    /\ UNCHANGED retrVars
    /\ UNCHANGED nonChatVars

\* route.ts:229: the generation stream ends; the assistant insert is issued next
GenEnd ==
    /\ pc = "generating"
    /\ pc' = "insert"
    /\ UNCHANGED <<reqMessage, reqChatId, currentChatId, chats, messages, touched, events,
                   fullResponse, generated, cancelled, cancelledAt, ops, response>>
    /\ UNCHANGED retrVars
    /\ UNCHANGED nonChatVars

AssistantRow(chat, content) ==
    [chat |-> chat, role |-> "assistant", content |-> content, own |-> TRUE]

\* what the handler does with the outcome of the assistant insert (route.ts:238-245):
\* the resolved value is not inspected, only a rejection reaches the catch block
InsertFails(o) == o = "throw"

\* route.ts:237-245: the assistant message is inserted
InsertAssistant ==
    /\ pc = "insert"
    /\ \E o \in Outcomes :
         /\ messages' = IF InsertLands(o, currentChatId)
                        THEN Append(messages, AssistantRow(currentChatId, fullResponse))
                        ELSE messages
         /\ IF InsertFails(o)
            THEN CatchStreaming(Append(ops, "assistantWrite"))
            ELSE /\ pc' = "touch"
                 /\ ops' = Append(ops, "assistantWrite")
                 /\ events' = events
    /\ UNCHANGED <<reqMessage, reqChatId, currentChatId, chats, touched, fullResponse,
                   generated, cancelled, cancelledAt, response>>
    /\ UNCHANGED retrVars
    /\ UNCHANGED nonChatVars

\* route.ts:253-255: the done event is enqueued and the stream closed
\* mutant: an exception after the done event reaches the catch block, which
\* sends the error event as well
EmitDone_ThenError(issued) ==
    /\ events' = events \o <<DoneEvent, ErrorEvent>>
    /\ ops' = issued \o <<"done", "error">>
    /\ pc' = "closed"

\* when the stream was cancelled the enqueue throws, and so does the one of the
\* catch block
EmitDone(issued) ==
    IF CanEnqueue
    THEN /\ events' = Append(events, DoneEvent)
         /\ ops' = Append(issued, "done")
         /\ pc' = "closed"
    ELSE CatchStreaming(issued)

\* mutant: the done event is sent before the timestamp update is issued
TouchChat_DoneFirst ==
    /\ pc = "touch"
    /\ touched' = touched \cup {currentChatId}
    /\ events' = Append(events, DoneEvent)
    /\ ops' = ops \o <<"done", "touch">>
    /\ pc' = "closed"
    /\ UNCHANGED <<reqMessage, reqChatId, currentChatId, chats, messages, fullResponse,
                   generated, cancelled, cancelledAt, response>>
    /\ UNCHANGED retrVars
    /\ UNCHANGED nonChatVars

\* route.ts:247-255: the chat timestamp is updated, then done is sent
TouchChat ==
    /\ pc = "touch"
    /\ \E o \in Outcomes :
         /\ touched' = IF o = "ok" /\ currentChatId \in chats
                       THEN touched \cup {currentChatId} ELSE touched
         /\ IF o = "throw"
            THEN CatchStreaming(Append(ops, "touch"))
            ELSE EmitDone(Append(ops, "touch"))
    /\ UNCHANGED <<reqMessage, reqChatId, currentChatId, chats, messages, fullResponse,
                   generated, cancelled, cancelledAt, response>>
    /\ UNCHANGED retrVars
    /\ UNCHANGED nonChatVars

\* the client cancels the response stream while it is open
ClientCancel ==
    /\ pc \in {"genStart", "generating", "insert", "touch"}
    /\ ~cancelled
    /\ cancelled' = TRUE
    /\ cancelledAt' = IF pc = "generating" THEN Len(generated) ELSE -1
    /\ UNCHANGED <<pc, reqMessage, reqChatId, currentChatId, chats, messages, touched,
                   events, fullResponse, generated, ops, response>>
    /\ UNCHANGED retrVars
    /\ UNCHANGED nonChatVars

Next ==
    \/ Validate
    \/ CreateChat
    \/ SaveUserMessage
    \/ Retrieve
    \/ StartStream
    \/ GenStart
    \/ GenYield
    \/ GenFail
    \/ GenEnd
    \/ InsertAssistant
    \/ TouchChat
    \/ ClientCancel

(***************************************************************************)
(* Text helpers (JavaScript string semantics on sequences of characters)   *)
(***************************************************************************)
NL == "\n"
CR == "\r"
SP == " "
TAB == "\t"

\* characters matched by \s in a regular expression and removed by trim()
IsWs(c) == c \in {SP, TAB, NL, CR}
\* line terminators: where ^ and $ match under the m flag
IsLineEnd(c) == c \in {NL, CR}
IsDigit(c) == c \in {"0", "1", "2", "3", "4", "5", "6", "7", "8", "9"}
IsLower(c) == c \in {"a", "b", "c", "d", "e", "f", "g", "h", "i", "j", "k", "l", "m",
                     "n", "o", "p", "q", "r", "s", "t", "u", "v", "w", "x", "y", "z"}
\* lower-case form of the letters of "Page", for the i flag
ToLower(c) == CASE c = "P" -> "p" [] c = "A" -> "a" [] c = "G" -> "g" [] c = "E" -> "e"
                [] OTHER -> c

\* s.slice(from) with a 1-based first index
From(s, i) == SubSeq(s, i, Len(s))

\* String.prototype.trim
RECURSIVE TrimStart(_)
TrimStart(s) == IF s # <<>> /\ IsWs(Head(s)) THEN TrimStart(Tail(s)) ELSE s
RECURSIVE TrimEnd(_)
TrimEnd(s) == IF s # <<>> /\ IsWs(s[Len(s)]) THEN TrimEnd(SubSeq(s, 1, Len(s) - 1)) ELSE s
Trim(s) == TrimEnd(TrimStart(s))

\* first index j >= i with s[j] not white space (Len(s)+1 when there is none)
RECURSIVE SkipWs(_, _)
SkipWs(s, i) == IF i <= Len(s) /\ IsWs(s[i]) THEN SkipWs(s, i + 1) ELSE i
RECURSIVE SkipDigits(_, _)
SkipDigits(s, i) == IF i <= Len(s) /\ IsDigit(s[i]) THEN SkipDigits(s, i + 1) ELSE i
RECURSIVE SkipBlanks(_, _)
SkipBlanks(s, i) == IF i <= Len(s) /\ s[i] \in {SP, TAB} THEN SkipBlanks(s, i + 1) ELSE i
RECURSIVE SkipNewlines(_, _)
SkipNewlines(s, i) == IF i <= Len(s) /\ s[i] = NL THEN SkipNewlines(s, i + 1) ELSE i

\* s.startsWith(p, i-1): p occurs in s at the 1-based index i
OccursAt(s, p, i) == i >= 1 /\ i + Len(p) - 1 <= Len(s) /\ SubSeq(s, i, i + Len(p) - 1) = p

(***************************************************************************)
(* preprocessText  (chunk.ts:63-92)                                        *)
(***************************************************************************)
\* chunk.ts:67  replace(/\r\n/g, '\n')
RECURSIVE ReplaceCRLF(_)
ReplaceCRLF(s) ==
    IF s = <<>> THEN <<>>
    ELSE IF OccursAt(s, <<CR, NL>>, 1) THEN <<NL>> \o ReplaceCRLF(From(s, 3))
    ELSE <<Head(s)>> \o ReplaceCRLF(Tail(s))

\* chunk.ts:67  replace(/\r/g, '\n')
ReplaceCR(s) == [i \in 1..Len(s) |-> IF s[i] = CR THEN NL ELSE s[i]]

\* chunk.ts:70  replace(/[ \t]+/g, ' ')
RECURSIVE CollapseBlanks(_)
CollapseBlanks(s) ==
    IF s = <<>> THEN <<>>
    ELSE IF Head(s) \in {SP, TAB} THEN <<SP>> \o CollapseBlanks(From(s, SkipBlanks(s, 1)))
    ELSE <<Head(s)>> \o CollapseBlanks(Tail(s))

\* chunk.ts:74  replace(/([a-z,])\n([a-z])/g, '$1 $2'): the scan resumes after the
\* second letter of a match, which therefore never opens the next match
RECURSIVE JoinBrokenLines(_)
JoinBrokenLines(s) ==
    IF s = <<>> THEN <<>>
    ELSE IF /\ Len(s) >= 3
            /\ (IsLower(s[1]) \/ s[1] = ",")
            /\ s[2] = NL
            /\ IsLower(s[3])
         THEN <<s[1], SP, s[3]>> \o JoinBrokenLines(From(s, 4))
    ELSE <<Head(s)>> \o JoinBrokenLines(Tail(s))

\* chunk.ts:77  replace(/\n{3,}/g, '\n\n')
RECURSIVE CollapseNewlines(_)
CollapseNewlines(s) ==
    IF s = <<>> THEN <<>>
    ELSE IF SkipNewlines(s, 1) >= 4 THEN <<NL, NL>> \o CollapseNewlines(From(s, SkipNewlines(s, 1)))
    ELSE IF Head(s) = NL THEN SubSeq(s, 1, SkipNewlines(s, 1) - 1)
                              \o CollapseNewlines(From(s, SkipNewlines(s, 1)))
    ELSE <<Head(s)>> \o CollapseNewlines(Tail(s))

\* ^ under the m flag, at the 1-based index i
AtLineStart(s, i) == i = 1 \/ IsLineEnd(s[i - 1])

\* the tail \s*$ of the artifact patterns, tried at index j: the greedy \s* takes
\* the whole white-space run and gives characters back until $ matches, that is
\* until the input ends or a line terminator follows. The index after the match,
\* 0 when there is no match.
RECURSIVE LastLineEndBefore(_, _, _)
LastLineEndBefore(s, j, k) ==
    IF k < j THEN 0
    ELSE IF IsLineEnd(s[k]) THEN k
    ELSE LastLineEndBefore(s, j, k - 1)

TrailEnd(s, j) ==
    IF SkipWs(s, j) > Len(s) THEN Len(s) + 1
    ELSE LastLineEndBefore(s, j, SkipWs(s, j) - 1)

\* chunk.ts:81  /^\s*\d+\s*$/gm tried at index i
MatchPageNumber(s, i) ==
    LET a == SkipWs(s, i)
        d == SkipDigits(s, a)
    IN  IF AtLineStart(s, i) /\ d > a THEN TrailEnd(s, d) ELSE 0

\* chunk.ts:82  /^\s*Page \d+\s*$/gmi tried at index i
MatchPageLabel(s, i) ==
    LET a == SkipWs(s, i)
        d == SkipDigits(s, a + 5)
    IN  IF /\ AtLineStart(s, i)
           /\ a + 4 <= Len(s)
           /\ [k \in 1..5 |-> ToLower(s[a + k - 1])] = <<"p", "a", "g", "e", SP>>
           /\ d > a + 5
        THEN TrailEnd(s, d) ELSE 0

\* chunk.ts:83  /^\s*-\s*\d+\s*-\s*$/gm tried at index i
MatchDashedNumber(s, i) ==
    LET a == SkipWs(s, i)
        b == SkipWs(s, a + 1)
        d == SkipDigits(s, b)
        c == SkipWs(s, d)
    IN  IF /\ AtLineStart(s, i)
           /\ a <= Len(s) /\ s[a] = "-"
           /\ d > b
           /\ c <= Len(s) /\ s[c] = "-"
        THEN TrailEnd(s, c + 1) ELSE 0

MatchArtifact(kind, s, i) ==
    CASE kind = "number" -> MatchPageNumber(s, i)
      [] kind = "page" -> MatchPageLabel(s, i)
      [] kind = "dashed" -> MatchDashedNumber(s, i)

\* replace(pattern, '') with the g flag: leftmost match, then on from its end
RECURSIVE RemoveArtifacts(_, _, _)
RemoveArtifacts(kind, s, i) ==
    IF i > Len(s) THEN <<>>
    ELSE IF MatchArtifact(kind, s, i) > 0
         THEN RemoveArtifacts(kind, s, MatchArtifact(kind, s, i))
    ELSE <<s[i]>> \o RemoveArtifacts(kind, s, i + 1)

\* chunk.ts:86  replace(/[ \t]+$/gm, '')
RECURSIVE TrimLineEnds(_)
TrimLineEnds(s) ==
    IF s = <<>> THEN <<>>
    ELSE IF Head(s) \in {SP, TAB}
         THEN IF SkipBlanks(s, 1) > Len(s) \/ IsLineEnd(s[SkipBlanks(s, 1)])
              THEN TrimLineEnds(From(s, SkipBlanks(s, 1)))
              ELSE SubSeq(s, 1, SkipBlanks(s, 1) - 1) \o TrimLineEnds(From(s, SkipBlanks(s, 1)))
    ELSE <<Head(s)>> \o TrimLineEnds(Tail(s))

\* chunk.ts:63-92
preprocessText(t) ==
    LET s1 == ReplaceCR(ReplaceCRLF(t))
        s2 == CollapseBlanks(s1)
        s3 == JoinBrokenLines(s2)
        s4 == CollapseNewlines(s3)
        s5a == RemoveArtifacts("number", s4, 1)
        s5b == RemoveArtifacts("page", s5a, 1)
        s5c == RemoveArtifacts("dashed", s5b, 1)
        s6 == TrimLineEnds(s5c)
    IN  Trim(s6)

(***************************************************************************)
(* Recursive chunker  (chunk.ts:25-58, 97-300)                             *)
(***************************************************************************)
BULLET == "bullet"

\* chunk.ts:25-58
SEPARATORS == <<
    <<NL, "#", "#", SP>>,
    <<NL, "#", "#", "#", SP>>,
    <<NL, "#", "#", "#", "#", SP>>,
    <<NL, "-", "-", "-", NL>>,
    <<NL, "_", "_", "_", NL>>,
    <<NL, NL, NL>>,
    <<NL, NL>>,
    <<".", NL>>,
    <<"!", NL>>,
    <<"?", NL>>,
    <<".", SP>>,
    <<"!", SP>>,
    <<"?", SP>>,
    <<";", NL>>,
    <<";", SP>>,
    <<",", NL>>,
    <<NL, "-", SP>>,
    <<NL, "*", SP>>,
    <<NL, BULLET, SP>>,
    <<NL>>,
    <<SP>> >>

Min(a, b) == IF a <= b THEN a ELSE b
Max(a, b) == IF a >= b THEN a ELSE b

\* String.prototype.indexOf(p, from) on 0-based indices, -1 when p does not occur
RECURSIVE IndexFrom(_, _, _)
IndexFrom(s, p, from) ==
    IF from + Len(p) > Len(s) THEN -1
    ELSE IF OccursAt(s, p, from + 1) THEN from
    ELSE IndexFrom(s, p, from + 1)

IndexOf(s, p, from) == IndexFrom(s, p, Min(Max(from, 0), Len(s)))

\* String.prototype.lastIndexOf(p, from) on 0-based indices
RECURSIVE LastIndexFrom(_, _, _)
LastIndexFrom(s, p, from) ==
    IF from < 0 THEN -1
    ELSE IF OccursAt(s, p, from + 1) THEN from
    ELSE LastIndexFrom(s, p, from - 1)

LastIndexOf(s, p, from) == LastIndexFrom(s, p, Min(Max(from, 0), Len(s) - Len(p)))

\* String.prototype.slice(start, end) on 0-based indices, 0 <= start
Slice(s, start, end) == SubSeq(s, start + 1, Min(end, Len(s)))

\* String.prototype.split(separator), separator not empty
RECURSIVE Split(_, _)
Split(s, sep) ==
    IF IndexOf(s, sep, 0) = -1 THEN <<s>>
    ELSE <<Slice(s, 0, IndexOf(s, sep, 0))>>
         \o Split(From(s, IndexOf(s, sep, 0) + Len(sep) + 1), sep)

RECURSIVE KeepNonBlank(_)
KeepNonBlank(parts) ==
    IF parts = <<>> THEN <<>>
    ELSE IF Trim(Head(parts)) # <<>> THEN <<Head(parts)>> \o KeepNonBlank(Tail(parts))
    ELSE KeepNonBlank(Tail(parts))

\* chunk.ts:97-117
splitBySeparator(s, separator) ==
    IF separator = <<>> THEN [i \in 1..Len(s) |-> <<s[i]>>]
    ELSE LET parts == Split(s, separator)
         IN  KeepNonBlank([i \in 1..Len(parts) |->
                              IF i = 1 THEN parts[i] ELSE separator \o parts[i]])

\* chunk.ts:167-188, the loop over sentenceEnds from the k-th ending on
SentenceEnds == << <<".", SP>>, <<"!", SP>>, <<"?", SP>>, <<".", NL>>, <<"!", NL>>, <<"?", NL>> >>

\* chunk.ts:168: width of the window before the overlap that is searched
OverlapSearchWindow == 100

\* the loop without the test that keeps more than half of the overlap
RECURSIVE OverlapScan_NoHalfTest(_, _, _)
OverlapScan_NoHalfTest(s, targetOverlap, k) ==
    LET searchStart == Max(0, Len(s) - targetOverlap - OverlapSearchWindow)
        bestPos == Len(s) - targetOverlap
        pos == IndexOf(From(s, searchStart + 1), SentenceEnds[k], 0)
        absolutePos == searchStart + pos + Len(SentenceEnds[k])
    IN  IF k > Len(SentenceEnds) THEN bestPos
        ELSE IF pos # -1 /\ absolutePos > bestPos
             THEN absolutePos
        ELSE OverlapScan_NoHalfTest(s, targetOverlap, k + 1)

RECURSIVE OverlapScan(_, _, _)
OverlapScan(s, targetOverlap, k) ==
    LET searchStart == Max(0, Len(s) - targetOverlap - OverlapSearchWindow)
        bestPos == Len(s) - targetOverlap
        pos == IndexOf(From(s, searchStart + 1), SentenceEnds[k], 0)
        absolutePos == searchStart + pos + Len(SentenceEnds[k])
    IN  IF k > Len(SentenceEnds) THEN bestPos
        ELSE IF /\ pos # -1
                /\ absolutePos > bestPos
                /\ 2 * absolutePos < 2 * Len(s) - targetOverlap
             THEN absolutePos
        ELSE OverlapScan(s, targetOverlap, k + 1)

\* chunk.ts:167-188
findOverlapStart(s, targetOverlap) == OverlapScan(s, targetOverlap, 1)

\* chunk.ts:141-147 with the overlap taken from every closed chunk, however short
CarriedOver_NoLengthTest(currentChunk, overlap) ==
    IF overlap > 0
    THEN From(currentChunk, Max(0, Len(currentChunk) - overlap) + 1)
    ELSE <<>>

\* chunk.ts:141-147: the text carried from the chunk being closed into the
\* next one (nothing when the else branch is taken)
CarriedOver(currentChunk, overlap) ==
    IF overlap > 0 /\ Len(currentChunk) > overlap
    THEN From(currentChunk, findOverlapStart(currentChunk, overlap) + 1)
    ELSE <<>>

\* chunk.ts:132-154, the loop from the i-th piece on; chunk.ts:156-161 at its end
RECURSIVE MergeLoop(_, _, _, _, _, _)
MergeLoop(chunks, i, merged, currentChunk, size, overlap) ==
    IF i > Len(chunks)
    THEN IF Trim(currentChunk) # <<>> THEN Append(merged, Trim(currentChunk)) ELSE merged
    ELSE LET trimmedChunk == Trim(chunks[i])
         IN  IF trimmedChunk = <<>>
             THEN MergeLoop(chunks, i + 1, merged, currentChunk, size, overlap)
             ELSE IF Len(currentChunk) + Len(trimmedChunk) + 1 > size /\ Len(currentChunk) > 0
             THEN MergeLoop(chunks, i + 1, Append(merged, Trim(currentChunk)),
                            IF overlap > 0 /\ Len(currentChunk) > overlap
                            THEN CarriedOver(currentChunk, overlap) \o <<NL>> \o trimmedChunk
                            ELSE trimmedChunk,
                            size, overlap)
             ELSE MergeLoop(chunks, i + 1, merged,
                            IF currentChunk # <<>> THEN currentChunk \o <<NL>> \o trimmedChunk
                            ELSE trimmedChunk,
                            size, overlap)

\* chunk.ts:132-154, the loop from the i-th piece on: for every time the
\* branch of chunk.ts:137-147 is taken, the value of currentChunk, the chunk
\* pushed and the text carried over
RECURSIVE MergeCloses(_, _, _, _, _)
MergeCloses(chunks, i, currentChunk, size, overlap) ==
    IF i > Len(chunks) THEN <<>>
    ELSE LET trimmedChunk == Trim(chunks[i])
         IN  IF trimmedChunk = <<>>
             THEN MergeCloses(chunks, i + 1, currentChunk, size, overlap)
             ELSE IF Len(currentChunk) + Len(trimmedChunk) + 1 > size /\ Len(currentChunk) > 0
             THEN << [current |-> currentChunk,
                      closed |-> Trim(currentChunk),
                      carried |-> CarriedOver(currentChunk, overlap),
                      next |-> IF overlap > 0 /\ Len(currentChunk) > overlap
                               THEN CarriedOver(currentChunk, overlap) \o <<NL>> \o trimmedChunk
                               ELSE trimmedChunk] >>
                  \o MergeCloses(chunks, i + 1,
                                 IF overlap > 0 /\ Len(currentChunk) > overlap
                                 THEN CarriedOver(currentChunk, overlap) \o <<NL>>
                                      \o trimmedChunk
                                 ELSE trimmedChunk,
                                 size, overlap)
             ELSE MergeCloses(chunks, i + 1,
                              IF currentChunk # <<>> THEN currentChunk \o <<NL>> \o trimmedChunk
                              ELSE trimmedChunk,
                              size, overlap)

\* chunk.ts:122-162
mergeChunks(chunks, size, overlap) ==
    IF chunks = <<>> THEN <<>> ELSE MergeLoop(chunks, 1, <<>>, <<>>, size, overlap)

RECURSIVE KeepNonEmpty(_)
KeepNonEmpty(parts) ==
    IF parts = <<>> THEN <<>>
    ELSE IF Head(parts) # <<>> THEN <<Head(parts)>> \o KeepNonEmpty(Tail(parts))
    ELSE KeepNonEmpty(Tail(parts))

\* chunk.ts:209-217: end of the piece that starts at offset start
ForceSplitEnd(s, start, size) ==
    LET end0 == Min(start + size, Len(s))
        lastSpace == LastIndexOf(s, <<SP>>, end0)
    IN  IF end0 < Len(s) /\ 2 * lastSpace > 2 * start + size THEN lastSpace ELSE end0

\* chunk.ts:208-221: the while loop, from offset start on, reaches an
\* iteration that leaves start where it is and so never ends
RECURSIVE ForceSplitStalls(_, _, _)
ForceSplitStalls(s, start, size) ==
    IF start >= Len(s) THEN FALSE
    ELSE IF ForceSplitEnd(s, start, size) <= start THEN TRUE
    ELSE ForceSplitStalls(s, ForceSplitEnd(s, start, size), size)

\* chunk.ts:208-221, the while loop from offset start on, when it ends
RECURSIVE ForceSplitLoop(_, _, _)
ForceSplitLoop(s, start, size) ==
    IF start >= Len(s) THEN <<>>
    ELSE <<Trim(Slice(s, start, ForceSplitEnd(s, start, size)))>>
         \o ForceSplitLoop(s, ForceSplitEnd(s, start, size), size)

\* chunk.ts:204-223
ForceSplit(s, size) == KeepNonEmpty(ForceSplitLoop(s, 0, size))

\* mutant: the test of chunk.ts:199 is strict
FitsStrict(s, size) == Len(s) < size

\* mutant: the test of chunk.ts:199 lets every text through
Fits_Always(s, size) == TRUE

\* chunk.ts:199
Fits(s, size) == Len(s) <= size

\* chunk.ts:193-245; separatorIndex is 0-based as in the code
RECURSIVE recursiveSplit(_, _, _)
RECURSIVE SplitParts(_, _, _)
SplitParts(parts, separatorIndex, size) ==
    IF parts = <<>> THEN <<>>
    ELSE (IF Len(Head(parts)) > size
          THEN recursiveSplit(Head(parts), separatorIndex + 1, size)
          ELSE <<Head(parts)>>)
         \o SplitParts(Tail(parts), separatorIndex, size)

recursiveSplit(s, separatorIndex, size) ==
    IF Fits(s, size) THEN <<s>>
    ELSE IF separatorIndex >= Len(SEPARATORS) THEN ForceSplit(s, size)
    ELSE LET parts == splitBySeparator(s, SEPARATORS[separatorIndex + 1])
         IN  IF Len(parts) = 1 THEN recursiveSplit(s, separatorIndex + 1, size)
             ELSE SplitParts(parts, separatorIndex, size)

\* chunk.ts:193-245: the call recursiveSplit(s, separatorIndex, size) does not
\* return, because it or a call it makes enters a while loop that never ends
RECURSIVE SplitHangs(_, _, _)
SplitHangs(s, separatorIndex, size) ==
    IF Fits(s, size) THEN FALSE
    ELSE IF separatorIndex >= Len(SEPARATORS) THEN ForceSplitStalls(s, 0, size)
    ELSE LET parts == splitBySeparator(s, SEPARATORS[separatorIndex + 1])
         IN  IF Len(parts) = 1 THEN SplitHangs(s, separatorIndex + 1, size)
             ELSE \E i \in 1..Len(parts) :
                      /\ Len(parts[i]) > size
                      /\ SplitHangs(parts[i], separatorIndex + 1, size)

\* chunk.ts:285: number of leading characters of a chunk that are searched for
SearchPrefix == 50

\* chunk.ts:278-297, the loop from the i-th merged chunk on
RECURSIVE TrackPositions(_, _, _, _, _)
TrackPositions(processed, merged, i, currentPosition, overlap) ==
    IF i > Len(merged) THEN <<>>
    ELSE LET content == merged[i]
             startChar == IndexOf(processed, Slice(content, 0, SearchPrefix), currentPosition)
             actualStart == IF startChar # -1 THEN startChar ELSE currentPosition
         IN  <<[content |-> content, index |-> i - 1, startChar |-> actualStart,
                endChar |-> actualStart + Len(content)]>>
             \o TrackPositions(processed, merged, i + 1,
                               actualStart + Len(content) - overlap, overlap)

(***************************************************************************)
(* Chunks from partitioned elements  (part_004:119-184)                     *)
(***************************************************************************)
\* part_004:130-142: the elements whose text is not blank, numbered in order
UnstructuredChunks(els) ==
    LET kept == SelectSeq(els, LAMBDA t : Trim(t) # <<>>)
    IN  [i \in 1..Len(kept) |-> [content |-> kept[i], index |-> i - 1]]

\* the loop with every index one too large
RECURSIVE ConvertLoop_OneBased(_, _, _)
ConvertLoop_OneBased(cs, i, currentPosition) ==
    IF i > Len(cs) THEN <<>>
    ELSE LET startChar == currentPosition
             endChar == currentPosition + Len(cs[i].content)
         IN  <<[content |-> cs[i].content, index |-> i, startChar |-> startChar,
                endChar |-> endChar]>>
             \o ConvertLoop_OneBased(cs, i + 1, endChar + 1)

\* part_004:172-183: the map callback from the i-th chunk on
RECURSIVE ConvertLoop(_, _, _)
ConvertLoop(cs, i, currentPosition) ==
    IF i > Len(cs) THEN <<>>
    ELSE LET startChar == currentPosition
             endChar == currentPosition + Len(cs[i].content)
         IN  <<[content |-> cs[i].content, index |-> i - 1, startChar |-> startChar,
                endChar |-> endChar]>>
             \o ConvertLoop(cs, i + 1, endChar + 1)

\* part_004:164-184
convertToTextChunks(cs) == ConvertLoop(cs, 1, 0)

(***************************************************************************)
(* Properties of the chat stream                                           *)
(***************************************************************************)
RECURSIVE Flatten(_)
Flatten(ss) == IF ss = <<>> THEN <<>> ELSE Head(ss) \o Flatten(Tail(ss))

RECURSIVE NonEmpty(_)
NonEmpty(ss) ==
    IF ss = <<>> THEN <<>>
    ELSE IF Head(ss) = <<>> THEN NonEmpty(Tail(ss))
    ELSE <<Head(ss)>> \o NonEmpty(Tail(ss))

RECURSIVE OfType(_, _)
OfType(evs, ty) ==
    IF evs = <<>> THEN <<>>
    ELSE IF Head(evs).type = ty THEN <<Head(evs)>> \o OfType(Tail(evs), ty)
    ELSE OfType(Tail(evs), ty)

\* texts of the chunk events of the stream, in order
ChunkTexts == [i \in 1..Len(OfType(events, "chunk")) |-> OfType(events, "chunk")[i].text]

EndsWith(ty) == events # <<>> /\ events[Len(events)].type = ty

\* rows of messages this request wrote with role assistant
OwnAssistant == {i \in DOMAIN messages : messages[i].own /\ messages[i].role = "assistant"}

Terminals == {i \in DOMAIN events : events[i].type \in {"done", "error"}}

StreamOver == pc \in {"closed", "crashed"}

IsPrefix(s, t) == Len(s) <= Len(t) /\ SubSeq(t, 1, Len(s)) = s

\* C1: whenever the stream ends with a done event, exactly one assistant message
\* written by this request exists and its content is the concatenation of the
\* texts of the chunk events of the stream, in order.
C1_DoneHasOneAssistantMessage ==
    EndsWith("done") =>
        /\ Cardinality(OwnAssistant) = 1
        /\ \A i \in OwnAssistant : messages[i].content = Flatten(ChunkTexts)

\* C2: whenever the stream ends with an error event, no assistant message written
\* by this request exists.
C2_ErrorHasNoAssistantMessage ==
    EndsWith("error") => OwnAssistant = {}

\* C3 (as claimed): every opened stream, once its handler is over, has emitted
\* exactly one terminal event, and that event is the last one.
C3_ExactlyOneTerminal ==
    StreamOver => /\ Cardinality(Terminals) = 1
                  /\ Terminals = {Len(events)}

\* C3 (amended): a stream never holds more than one terminal event and none is
\* followed by another event; a stream that the client did not cancel holds
\* exactly one when its handler is over; a stream that the client cancelled
\* before the terminal event holds none.
C3_OneTerminalUnlessCancelled ==
    /\ Cardinality(Terminals) <= 1
    /\ Terminals \subseteq {Len(events)}
    /\ (StreamOver /\ ~cancelled) => Cardinality(Terminals) = 1
    /\ cancelled => Terminals = {}

C3_Witness ==
    /\ pc = "closed"
    /\ EndsWith("error")
    /\ Len(OfType(events, "chunk")) >= 1

\* C4: the metadata event is the first event and the only metadata event; the
\* chunk events carry the non-empty fragments of the generator verbatim and in
\* order (all of them unless the client cancelled); the accumulator is the
\* concatenation of the fragments generated so far, each taken once.
C4_MetadataFirstChunksInOrder ==
    /\ events # <<>> => events[1].type = "metadata"
    /\ Len(OfType(events, "metadata")) <= 1
    /\ IsPrefix(ChunkTexts, NonEmpty(generated))
    /\ ~cancelled => ChunkTexts = NonEmpty(generated)
    /\ fullResponse = Flatten(generated)

C4_Witness ==
    /\ Len(OfType(events, "chunk")) >= 2
    /\ \E i \in DOMAIN generated : generated[i] = <<>>
    /\ ChunkTexts[1] # ChunkTexts[2]

\* the operations of a request from the user-message write on
SinceUserWrite == IF ops # <<>> /\ Head(ops) = "createChat" THEN Tail(ops) ELSE ops

\* C5: in every request that ends with done the operations were issued in the
\* order user-message write, metadata event, chunk events, assistant-message
\* write, timestamp update, done event, each once but for the chunk events.
C5_SideEffectOrder ==
    EndsWith("done") =>
        SinceUserWrite = <<"userWrite", "metadata">>
                         \o [i \in 1..Len(ChunkTexts) |-> "chunk"]
                         \o <<"assistantWrite", "touch", "done">>

C5_Witness ==
    /\ EndsWith("done")
    /\ Len(ChunkTexts) >= 2
    /\ OwnAssistant # {}

\* the client cancelled while the fragments were being generated and the
\* generator yielded at least one more fragment afterwards
AbandonedWhileGenerating == cancelledAt >= 0 /\ Len(generated) > cancelledAt

\* C6: once the client has cancelled no chunk event is forwarded any more, and
\* when it cancelled while fragments were still being generated no assistant
\* message of this request is persisted.
C6_AbandonedNeverPersisted ==
    [][ /\ cancelled => OfType(events', "chunk") = OfType(events, "chunk")
        /\ AbandonedWhileGenerating' => OwnAssistant' = {} ]_vars

(***************************************************************************)
(* Specifications                                                          *)
(***************************************************************************)
ChunkIdle ==
    /\ cpc = "idle"
    /\ text = <<>>
    /\ chunkSize = 0
    /\ chunkOverlap = 0
    /\ processedText = <<>>
    /\ rawChunks = <<>>
    /\ mergedChunks = <<>>
    /\ result = <<>>
    /\ elements = <<>>
    /\ converted = <<>>
    /\ closes = <<>>

DocIdle ==
    /\ docStatus = <<>>
    /\ embeddings = {}
    /\ dpc = <<>>
    /\ dreq = <<>>
    /\ docChunks = <<>>
    /\ cursor = <<>>
    /\ dresp = <<>>
    /\ failed = <<>>

CiteIdle ==
    /\ rpc = "idle"
    /\ msgContent = <<>>
    /\ msgSources = {}
    /\ rendered = <<>>

\* no history block is being built
HistIdle ==
    /\ hpc = "idle"
    /\ conversationHistory = <<>>
    /\ historyContext = <<>>

\* no selection of files is being uploaded
UploadIdle ==
    /\ upc = "idle"
    /\ files = 0
    /\ fileNo = 0
    /\ uploadedFiles = <<>>

\* no response is being read
ReaderIdle ==
    /\ kpc = "idle"
    /\ sent = <<>>
    /\ wire = <<>>
    /\ assistantMessage = [content |-> <<>>, sources |-> <<>>]
    /\ clientSources = <<>>
    /\ handled = <<>>

UiIdle == HistIdle /\ UploadIdle /\ ReaderIdle

Init == ChatInit /\ ChunkIdle /\ DocIdle /\ CiteIdle /\ UiIdle

Spec == Init /\ [][Next]_vars

\* all sequences over alphabet of length at most n
SeqsUpTo(alphabet, n) == UNION {[1..k -> alphabet] : k \in 0..n}

ChunkAlphabet == {"a", SP, NL, "."}
PreAlphabet == {"a", ",", NL, SP, "1"}

\* chunk.ts:254-300: one call chunkText(text, {chunkSize, chunkOverlap}); the
\* call returns [] at chunk.ts:267-269 when the preprocessed text is empty, and
\* does not return when recursiveSplit does not
ChunkText ==
    /\ cpc = "input"
    /\ processedText' = preprocessText(text)
    /\ IF processedText' # <<>> /\ SplitHangs(processedText', 0, chunkSize)
       THEN /\ cpc' = "hung"
            /\ UNCHANGED <<rawChunks, mergedChunks, result, closes>>
       ELSE /\ cpc' = "chunked"
            /\ rawChunks' = IF processedText' = <<>> THEN <<>>
                            ELSE recursiveSplit(processedText', 0, chunkSize)
            /\ mergedChunks' = mergeChunks(rawChunks', chunkSize, chunkOverlap)
            /\ closes' = MergeCloses(rawChunks', 1, <<>>, chunkSize, chunkOverlap)
            /\ result' = IF processedText' = <<>> THEN <<>>
                         ELSE TrackPositions(processedText', mergedChunks', 1, 0, chunkOverlap)
    /\ UNCHANGED <<text, chunkSize, chunkOverlap, elements, converted>>
    /\ UNCHANGED nonChunkVars

\* texts of the elements the partition service may return (an element
\* without text reads as the empty text at part_004:131 and 133)
ElementTexts == { <<>>, <<SP>>, <<"a">>, <<"a", "b">> }

\* part_004:119-142 and 164-184: the elements of one partition response are
\* filtered and numbered, and the result is converted (part_002:71-72)
ConvertElements ==
    /\ cpc = "elements"
    /\ cpc' = "converted"
    /\ converted' = convertToTextChunks(UnstructuredChunks(elements))
    /\ UNCHANGED <<text, chunkSize, chunkOverlap, processedText, rawChunks, mergedChunks,
                   result, elements, closes>>
    /\ UNCHANGED nonChunkVars

\* a run of the chunker starts from a text and options, a conversion from
\* the elements of a partition response
ChunkInit ==
    /\ ChatIdle
    /\ UiIdle
    /\ DocIdle
    /\ CiteIdle
    /\ \/ /\ cpc = "input"
          /\ text \in SeqsUpTo(ChunkAlphabet, MaxTextLen)
          /\ chunkSize \in 0..MaxChunkSize
          /\ chunkOverlap \in 0..MaxChunkOverlap
          /\ elements = <<>>
       \/ /\ cpc = "elements"
          /\ text = <<>>
          /\ chunkSize = 0
          /\ chunkOverlap = 0
          /\ elements \in SeqsUpTo(ElementTexts, MaxElements)
    /\ processedText = <<>>
    /\ rawChunks = <<>>
    /\ mergedChunks = <<>>
    /\ result = <<>>
    /\ converted = <<>>
    /\ closes = <<>>

ChunkNext ==
    \/ ChunkText
    \/ ConvertElements

SpecChunk == ChunkInit /\ [][ChunkNext]_vars

\* pieces recursiveSplit hands to mergeChunks
PieceTexts ==
    { <<SP>>, <<"a">>, <<".">>, <<"a", "a">>, <<"a", ".">>, <<".", SP, "a">> }

\* one call mergeChunks(chunks, chunkSize, chunkOverlap)
MergeInit ==
    /\ ChatIdle
    /\ UiIdle
    /\ DocIdle
    /\ CiteIdle
    /\ cpc = "pieces"
    /\ text = <<>>
    /\ chunkSize \in 1..MaxMergeSize
    /\ chunkOverlap \in 0..MaxMergeOverlap
    /\ processedText = <<>>
    /\ rawChunks \in SeqsUpTo(PieceTexts, MaxPieces)
    /\ mergedChunks = <<>>
    /\ result = <<>>
    /\ elements = <<>>
    /\ converted = <<>>
    /\ closes = <<>>

\* chunk.ts:122-162
MergePieces ==
    /\ cpc = "pieces"
    /\ cpc' = "merged"
    /\ mergedChunks' = mergeChunks(rawChunks, chunkSize, chunkOverlap)
    /\ closes' = MergeCloses(rawChunks, 1, <<>>, chunkSize, chunkOverlap)
    /\ UNCHANGED <<text, chunkSize, chunkOverlap, processedText, rawChunks, result,
                   elements, converted>>
    /\ UNCHANGED nonChunkVars

MergeNext == MergePieces

SpecMerge == MergeInit /\ [][MergeNext]_vars

\* chunk.ts:63-92: one call preprocessText(text)
Preprocess ==
    /\ cpc = "input"
    /\ cpc' = "once"
    /\ processedText' = preprocessText(text)
    /\ UNCHANGED <<text, chunkSize, chunkOverlap, rawChunks, mergedChunks, result,
                   elements, converted, closes>>
    /\ UNCHANGED nonChunkVars

\* the output of the first call is the input of a second call
PreprocessAgain ==
    /\ cpc = "once"
    /\ cpc' = "twice"
    /\ text' = processedText
    /\ processedText' = preprocessText(processedText)
    /\ UNCHANGED <<chunkSize, chunkOverlap, rawChunks, mergedChunks, result,
                   elements, converted, closes>>
    /\ UNCHANGED nonChunkVars

PreInit ==
    /\ ChatIdle
    /\ UiIdle
    /\ DocIdle
    /\ CiteIdle
    /\ cpc = "input"
    /\ text \in SeqsUpTo(PreAlphabet, MaxPreLen)
    /\ chunkSize = 0
    /\ chunkOverlap = 0
    /\ processedText = <<>>
    /\ rawChunks = <<>>
    /\ mergedChunks = <<>>
    /\ result = <<>>
    /\ elements = <<>>
    /\ converted = <<>>
    /\ closes = <<>>

PreNext ==
    \/ Preprocess
    \/ PreprocessAgain

SpecPreprocess == PreInit /\ [][PreNext]_vars

(***************************************************************************)
(* Document processing  (part_002, POST process-document)                  *)
(***************************************************************************)
NoDoc == 0
TheDoc == 1
UnknownDoc == 9
\* the documents of the caller
Docs == {TheDoc}
\* two requests, which may name the same document and may overlap in time
Handlers == {1, 2}

\* part_002:87 and 97
FallbackChunkSize == 1000
FallbackChunkOverlap == 200

\* chunk.ts:254-300
chunkText(t, size, overlap) ==
    LET processed == preprocessText(t)
    IN  IF processed = <<>> THEN <<>>
        ELSE TrackPositions(processed,
                            mergeChunks(recursiveSplit(processed, 0, size), size, overlap),
                            1, 0, overlap)

\* part_002:64-98: the chunk lists the two paths can produce, from the
\* elements of a partition response or from the extracted text
ChunkLists ==
    { convertToTextChunks(UnstructuredChunks(e)) :
          e \in SeqsUpTo({<<"a">>, <<SP>>}, MaxChunks) }
    \cup { chunkText(t, FallbackChunkSize, FallbackChunkOverlap) : t \in {<<>>, <<"a">>} }

NoFailure == [what |-> "none", at |-> 0]

DocInit ==
    /\ ChatIdle
    /\ UiIdle
    /\ ChunkIdle
    /\ CiteIdle
    /\ docStatus = [d \in Docs |-> "pending"]
    /\ embeddings = {}
    /\ dpc = [h \in Handlers |-> "validate"]
    /\ dreq \in [Handlers -> {NoDoc, TheDoc, UnknownDoc}]
    /\ docChunks = [h \in Handlers |-> <<>>]
    /\ cursor = [h \in Handlers |-> 0]
    /\ dresp = [h \in Handlers |-> 0]
    /\ failed = [h \in Handlers |-> NoFailure]

\* the handler returns a response with the given status
Respond(h, status) ==
    /\ dpc' = [dpc EXCEPT ![h] = "done"]
    /\ dresp' = [dresp EXCEPT ![h] = status]

\* part_002:126-133: the outer catch answers 500 and writes nothing
CatchProcessing(h) == Respond(h, 500)

\* supabase update of the status column: it takes effect when the call
\* resolves without an error
SetStatus(h, o, status) ==
    docStatus' = IF o = "ok" THEN [docStatus EXCEPT ![dreq[h]] = status] ELSE docStatus

\* part_002:22-26
DocValidate(h) ==
    /\ dpc[h] = "validate"
    /\ IF dreq[h] = NoDoc
       THEN Respond(h, 400)
       ELSE dpc' = [dpc EXCEPT ![h] = "lookup"] /\ dresp' = dresp
    /\ UNCHANGED <<docStatus, embeddings, dreq, docChunks, cursor, failed>>
    /\ UNCHANGED nonDocVars

\* part_002:28-38
DocLookup(h) ==
    /\ dpc[h] = "lookup"
    /\ \E o \in Outcomes :
         IF o = "throw" THEN CatchProcessing(h)
         ELSE IF o = "error" \/ dreq[h] \notin Docs THEN Respond(h, 404)
         ELSE dpc' = [dpc EXCEPT ![h] = "setProcessing"] /\ dresp' = dresp
    /\ UNCHANGED <<docStatus, embeddings, dreq, docChunks, cursor, failed>>
    /\ UNCHANGED nonDocVars

\* part_002:40-44: the result of the update is not looked at
DocSetProcessing(h) ==
    /\ dpc[h] = "setProcessing"
    /\ \E o \in Outcomes :
         /\ SetStatus(h, o, "processing")
         /\ IF o = "throw" THEN CatchProcessing(h)
            ELSE dpc' = [dpc EXCEPT ![h] = "download"] /\ dresp' = dresp
    /\ UNCHANGED <<embeddings, dreq, docChunks, cursor, failed>>
    /\ UNCHANGED nonDocVars

\* part_002:46-51
DocDownload(h) ==
    /\ dpc[h] = "download"
    /\ \E o \in Outcomes :
         IF o = "throw" THEN CatchProcessing(h)
         ELSE /\ dpc' = [dpc EXCEPT ![h] = IF o = "ok" THEN "chunk" ELSE "setError"]
              /\ dresp' = dresp
    /\ UNCHANGED <<docStatus, embeddings, dreq, docChunks, cursor, failed>>
    /\ UNCHANGED nonDocVars

\* part_002:52-56
DocSetError(h) ==
    /\ dpc[h] = "setError"
    /\ \E o \in Outcomes :
         /\ SetStatus(h, o, "error")
         /\ IF o = "throw" THEN CatchProcessing(h) ELSE Respond(h, 500)
    /\ UNCHANGED <<embeddings, dreq, docChunks, cursor, failed>>
    /\ UNCHANGED nonDocVars

\* part_002:59-98: the file is read and chunked by the partition service or,
\* when that is not configured or fails, by parseDocument and chunkText; a
\* failing arrayBuffer or parseDocument rejects into the outer catch
DocChunk(h) ==
    /\ dpc[h] = "chunk"
    /\ \/ \E list \in ChunkLists :
            /\ docChunks' = [docChunks EXCEPT ![h] = list]
            /\ cursor' = [cursor EXCEPT ![h] = 1]
            /\ dpc' = [dpc EXCEPT ![h] = IF list = <<>> THEN "setReady" ELSE "embed"]
            /\ UNCHANGED <<dresp, failed>>
       \/ /\ failed' = [failed EXCEPT ![h] = [what |-> "extract", at |-> 0]]
          /\ CatchProcessing(h)
          /\ UNCHANGED <<docChunks, cursor>>
    /\ UNCHANGED <<docStatus, embeddings, dreq>>
    /\ UNCHANGED nonDocVars

\* part_002:101-102: generateEmbedding of the current chunk
DocEmbed(h) ==
    /\ dpc[h] = "embed"
    /\ \E o \in {"ok", "throw"} :
         IF o = "throw"
         THEN /\ failed' = [failed EXCEPT ![h] =
                               IF failed[h] = NoFailure
                               THEN [what |-> "embed", at |-> cursor[h]] ELSE failed[h]]
              /\ CatchProcessing(h)
         ELSE /\ dpc' = [dpc EXCEPT ![h] = "insert"]
              /\ UNCHANGED <<dresp, failed>>
    /\ UNCHANGED <<docStatus, embeddings, dreq, docChunks, cursor>>
    /\ UNCHANGED nonDocVars

\* the row of part_002:106-111, tagged with the request that wrote it
EmbeddingRow(h) ==
    [document_id |-> dreq[h], chunk_index |-> docChunks[h][cursor[h]].index, request |-> h]

\* part_002:104-112: the insert, whose result is not looked at, and the
\* step of the loop
DocInsert(h) ==
    /\ dpc[h] = "insert"
    /\ \E o \in Outcomes :
         /\ embeddings' = IF o = "ok" THEN embeddings \cup {EmbeddingRow(h)} ELSE embeddings
         /\ failed' = [failed EXCEPT ![h] =
                          IF o # "ok" /\ failed[h] = NoFailure
                          THEN [what |-> "store", at |-> cursor[h]] ELSE failed[h]]
         /\ IF o = "throw"
            THEN CatchProcessing(h) /\ cursor' = cursor
            ELSE /\ cursor' = [cursor EXCEPT ![h] = cursor[h] + 1]
                 /\ dpc' = [dpc EXCEPT ![h] = IF cursor[h] < Len(docChunks[h])
                                              THEN "embed" ELSE "setReady"]
                 /\ dresp' = dresp
    /\ UNCHANGED <<docStatus, dreq, docChunks>>
    /\ UNCHANGED nonDocVars

\* part_002:114-124
DocSetReady(h) ==
    /\ dpc[h] = "setReady"
    /\ \E o \in Outcomes :
         /\ SetStatus(h, o, "ready")
         /\ IF o = "throw" THEN CatchProcessing(h) ELSE Respond(h, 200)
    /\ UNCHANGED <<embeddings, dreq, docChunks, cursor, failed>>
    /\ UNCHANGED nonDocVars

DocNext ==
    \E h \in Handlers :
        \/ DocValidate(h)
        \/ DocLookup(h)
        \/ DocSetProcessing(h)
        \/ DocDownload(h)
        \/ DocSetError(h)
        \/ DocChunk(h)
        \/ DocEmbed(h)
        \/ DocInsert(h)
        \/ DocSetReady(h)

SpecDoc == DocInit /\ [][DocNext]_vars

(***************************************************************************)
(* Citation renderer  (chat-interface.tsx:127-159)                         *)
(***************************************************************************)
\* /\[\d+\]/ tried at the 1-based index i of s: the index after the match,
\* 0 when it does not match there
MarkerEnd(s, i) ==
    IF /\ i <= Len(s)
       /\ s[i] = "["
       /\ SkipDigits(s, i + 1) > i + 1
       /\ SkipDigits(s, i + 1) <= Len(s)
       /\ s[SkipDigits(s, i + 1)] = "]"
    THEN SkipDigits(s, i + 1) + 1
    ELSE 0

\* index of the leftmost match of /\[\d+\]/ in s at or after i, 0 when none
RECURSIVE FindMarker(_, _)
FindMarker(s, i) ==
    IF i > Len(s) THEN 0
    ELSE IF MarkerEnd(s, i) # 0 THEN i
    ELSE FindMarker(s, i + 1)

\* chat-interface.tsx:133  content.split(/(\[\d+\])/g)
RECURSIVE SplitMarkers(_)
SplitMarkers(s) ==
    IF FindMarker(s, 1) = 0 THEN <<s>>
    ELSE <<SubSeq(s, 1, FindMarker(s, 1) - 1),
           SubSeq(s, FindMarker(s, 1), MarkerEnd(s, FindMarker(s, 1)) - 1)>>
         \o SplitMarkers(From(s, MarkerEnd(s, FindMarker(s, 1))))

DigitValue(c) ==
    CASE c = "0" -> 0 [] c = "1" -> 1 [] c = "2" -> 2 [] c = "3" -> 3 [] c = "4" -> 4
      [] c = "5" -> 5 [] c = "6" -> 6 [] c = "7" -> 7 [] c = "8" -> 8 [] c = "9" -> 9

\* chat-interface.tsx:140  parseInt of a run of digits
RECURSIVE parseInt(_)
parseInt(ds) ==
    IF ds = <<>> THEN 0
    ELSE 10 * parseInt(SubSeq(ds, 1, Len(ds) - 1)) + DigitValue(ds[Len(ds)])

\* chat-interface.tsx:141 with every number taken as the number of a source
FindSource_Any(srcs, num) == TRUE

\* chat-interface.tsx:141  sources.find(s => s.number === num)
FindSource(srcs, num) == num \in srcs

\* chat-interface.tsx:138-155: one part becomes a button that shows the
\* number, or a span that shows the part
RenderPart(part, srcs) ==
    LET m == FindMarker(part, 1)
        num == IF m = 0 THEN 0 ELSE parseInt(SubSeq(part, m + 1, MarkerEnd(part, m) - 2))
    IN  IF m # 0 /\ FindSource(srcs, num)
        THEN [kind |-> "button", part |-> part, num |-> num]
        ELSE [kind |-> "span", part |-> part, num |-> 0]

\* chat-interface.tsx:127-159
renderMessageWithCitations(c, srcs) ==
    IF srcs = {} THEN << [kind |-> "span", part |-> c, num |-> 0] >>
    ELSE [i \in 1..Len(SplitMarkers(c)) |-> RenderPart(SplitMarkers(c)[i], srcs)]

\* pieces an assistant message is made of
CiteTokens ==
    { <<"A">>, <<"[">>, <<"]">>, <<"0">>, <<"1">>, <<"2">>,
      <<"[", "1", "]">>, <<"[", "2", "]">>, <<"[", "0", "1", "]">> }

\* all concatenations of at most n tokens
RECURSIVE TokenTexts(_)
TokenTexts(n) ==
    IF n = 0 THEN { <<>> }
    ELSE TokenTexts(n - 1) \cup { t \o u : t \in TokenTexts(n - 1), u \in CiteTokens }

\* a message and its sources, which are numbered from 1 (route.ts:133-134)
CiteInit ==
    /\ ChatIdle
    /\ UiIdle
    /\ ChunkIdle
    /\ DocIdle
    /\ rpc = "input"
    /\ msgContent \in TokenTexts(MaxTokens)
    /\ msgSources \in { 1..n : n \in 0..MaxSources }
    /\ rendered = <<>>

\* chat-interface.tsx:127-159: the message is rendered
Render ==
    /\ rpc = "input"
    /\ rpc' = "rendered"
    /\ rendered' = renderMessageWithCitations(msgContent, msgSources)
    /\ UNCHANGED <<msgContent, msgSources>>
    /\ UNCHANGED nonCiteVars

CiteNext == Render

SpecCite == CiteInit /\ [][CiteNext]_vars

(***************************************************************************)
(* Properties of the chunker and the preprocessor                          *)
(***************************************************************************)
\* C7: every chunk returned by chunkText has content length at most chunkSize,
\* for every text and every 0 <= chunkOverlap < chunkSize.
C7_ChunkWithinSize ==
    (cpc = "chunked" /\ chunkOverlap < chunkSize) =>
        \A i \in DOMAIN result : Len(result[i].content) <= chunkSize

\* the chunks from the i-th on, each without some prefix that is its overlap
\* with the chunk before it (the first chunk without any), concatenate to rest
RECURSIVE Rebuilds(_, _, _)
Rebuilds(chunks, i, rest) ==
    IF i > Len(chunks) THEN rest = <<>>
    ELSE \E p \in 0..Len(chunks[i].content) :
            /\ i = 1 => p = 0
            /\ i > 1 => \E q \in 0..p :
                            IsPrefix(SubSeq(chunks[i].content, 1, q),
                                     From(chunks[i - 1].content,
                                          Len(chunks[i - 1].content) - q + 1))
                            /\ \A k \in q + 1..p : chunks[i].content[k] = NL
            /\ IsPrefix(From(chunks[i].content, p + 1), rest)
            /\ Rebuilds(chunks, i + 1, From(rest, Len(chunks[i].content) - p + 1))

\* C8: the contents of the chunks, each without its overlap prefix, concatenate
\* in ordinal order to exactly the preprocessed text.
C8_LosslessReconstruction ==
    cpc = "chunked" => Rebuilds(result, 1, processedText)

\* C9: a text whose preprocessed form is empty yields no chunk; a text whose
\* preprocessed form is not empty and not longer than chunkSize yields exactly
\* one chunk, with index 0 and the preprocessed text as its content.
C9_SmallTextOneChunk ==
    cpc = "chunked" =>
        /\ processedText = <<>> => result = <<>>
        /\ (processedText # <<>> /\ Len(processedText) <= chunkSize) =>
              /\ Len(result) = 1
              /\ result[1].index = 0
              /\ result[1].content = processedText

C9_Witness ==
    /\ cpc = "chunked"
    /\ Len(processedText) = chunkSize
    /\ chunkSize >= 3
    /\ \E i \in DOMAIN processedText : processedText[i] = SP
    /\ text # processedText
    /\ Len(result) = 1

\* C10: preprocessText applied to its own output returns that output.
C10_PreprocessIdempotent ==
    cpc = "twice" => processedText = text

\* the indexes of a chunk list count its entries from zero, in list order
ZeroBased(list) == \A i \in 1..Len(list) : list[i].index = i - 1

\* C11: the chunks chunkText returns and the chunks convertToTextChunks
\* returns carry the indexes 0..N-1 in list order, none missing or repeated.
C11_IndexesCountFromZero ==
    /\ cpc = "chunked" => ZeroBased(result)
    /\ cpc = "converted" => ZeroBased(converted)

\* three elements, one of them blank, became two chunks
C11_Witness ==
    /\ cpc = "converted"
    /\ Len(elements) = 3
    /\ Len(converted) = 2

\* rows of table embeddings that belong to document d
RowsOf(d) == {e \in embeddings : e.document_id = d}

\* C12: the chunks stored for a document whose status is ready have the
\* ordinals 0..N-1, each present once, whatever requests were made.
C12_ReadyOrdinalsExact ==
    \A d \in DOMAIN docStatus :
        docStatus[d] = "ready" =>
            \A i \in 0..(Cardinality(RowsOf(d)) - 1) :
                Cardinality({e \in RowsOf(d) : e.chunk_index = i}) = 1

\* C13: a request in which extraction, embedding or storing failed leaves its
\* document in status error (no other request having named the document),
\* and embeds no chunk after the failure.
C13_FailureSetsError ==
    \A h \in DOMAIN failed :
        failed[h] # NoFailure =>
            /\ (dpc[h] = "done" /\ \A g \in DOMAIN dreq : g # h => dreq[g] # dreq[h])
                   => docStatus[dreq[h]] = "error"
            /\ ~(dpc[h] = "insert" /\ cursor[h] > failed[h].at)

StatusTransitions ==
    { <<"pending", "processing">>, <<"processing", "ready">>, <<"processing", "error">> }

\* C14: every change of a document's status is pending -> processing,
\* processing -> ready or processing -> error.
C14_StatusOnlyAdvances ==
    [][ \A d \in DOMAIN docStatus :
            docStatus'[d] # docStatus[d] =>
                <<docStatus[d], docStatus'[d]>> \in StatusTransitions ]_vars

(***************************************************************************)
(* Properties of retrieval and of request validation                       *)
(***************************************************************************)
\* the retrieval mode as a function of a document count and a match list
ModeOf(count, ms) ==
    IF count = Null \/ count = 0 THEN "no-documents"
    ELSE IF ms = <<>> THEN "no-relevant-match"
    ELSE "grounded"

C16_SourcesNumberedInOrder ==
    template # "none" =>
        /\ Len(numberedSources) = Len(matches)
        /\ \A i \in 1..Len(numberedSources) :
               /\ numberedSources[i].number = i
               /\ numberedSources[i].document_id = matches[i].document_id
               /\ numberedSources[i].content = matches[i].content
               /\ numberedSources[i].similarity = matches[i].similarity
        /\ \A i, j \in 1..Len(numberedSources) :
               i < j => numberedSources[i].similarity >= numberedSources[j].similarity

\* two chunks of one document were matched
C16_Witness ==
    /\ template # "none"
    /\ Len(numberedSources) = 2
    /\ numberedSources[1].document_id = numberedSources[2].document_id

C18_BadRequestRejected ==
    (~reqMessage \/ reqChatId = UnknownChat) =>
        /\ response # "stream"
        /\ \A i \in DOMAIN messages : ~messages[i].own
        /\ touched = {}
        /\ chats = {KnownChat}

(***************************************************************************)
(* Properties of the citation renderer                                     *)
(***************************************************************************)
\* p is "[", one or more digits, "]"
IsMarker(p) ==
    /\ Len(p) >= 3
    /\ p[1] = "["
    /\ p[Len(p)] = "]"
    /\ \A j \in 2..(Len(p) - 1) : IsDigit(p[j])

DigitsOf(p) == SubSeq(p, 2, Len(p) - 1)

\* the decimal numeral of n >= 1, without leading zeros
RECURSIVE Numeral(_)
Numeral(n) ==
    LET d == <<"0", "1", "2", "3", "4", "5", "6", "7", "8", "9">>[(n % 10) + 1]
    IN  IF n < 10 THEN <<d>> ELSE Numeral(n \div 10) \o <<d>>

RECURSIVE StripZeros(_)
StripZeros(ds) == IF Len(ds) > 1 /\ Head(ds) = "0" THEN StripZeros(Tail(ds)) ELSE ds

\* the markers that occur in s, as pairs of first and last index
MarkersIn(s) ==
    { <<i, j>> \in (1..Len(s)) \X (1..Len(s)) : i < j /\ IsMarker(SubSeq(s, i, j)) }

RenderedParts == [i \in 1..Len(rendered) |-> rendered[i].part]

\* C19 as stated: the parts are the message in order, and a marker is a
\* button iff its digits are the plain numeral of a source of the message.
C19_PlainMarkersResolve ==
    rpc = "rendered" =>
        /\ Flatten(RenderedParts) = msgContent
        /\ \A i \in 1..Len(rendered) :
               /\ rendered[i].kind = "button" <=>
                      /\ IsMarker(rendered[i].part)
                      /\ \E n \in msgSources : DigitsOf(rendered[i].part) = Numeral(n)
               /\ rendered[i].kind = "span" =>
                      \A m \in MarkersIn(rendered[i].part) :
                          \A n \in msgSources :
                              DigitsOf(SubSeq(rendered[i].part, m[1], m[2])) # Numeral(n)

\* C19, amended: the parts are the message in order, and a marker is a
\* button iff its digits, leading zeros dropped, are the numeral of a source
\* of the message; the button shows that source's number.
C19_MarkersResolveByValue ==
    rpc = "rendered" =>
        /\ Flatten(RenderedParts) = msgContent
        /\ \A i \in 1..Len(rendered) :
               /\ rendered[i].kind = "button" <=>
                      /\ IsMarker(rendered[i].part)
                      /\ \E n \in msgSources :
                             StripZeros(DigitsOf(rendered[i].part)) = Numeral(n)
               /\ rendered[i].kind = "button" =>
                      /\ rendered[i].num \in msgSources
                      /\ rendered[i].num >= 1
                      /\ StripZeros(DigitsOf(rendered[i].part)) = Numeral(rendered[i].num)
               /\ rendered[i].kind = "span" =>
                      \A m \in MarkersIn(rendered[i].part) :
                          \A n \in msgSources :
                              StripZeros(DigitsOf(SubSeq(rendered[i].part, m[1], m[2])))
                                  # Numeral(n)

\* a marker of a source is followed by a marker without a source
C19_Witness ==
    /\ rpc = "rendered"
    /\ msgSources = {1}
    /\ \E i \in 1..Len(rendered) :
           /\ rendered[i].kind = "button"
           /\ rendered[i].part = <<"[", "1", "]">>
           /\ i + 2 <= Len(rendered)
           /\ rendered[i + 1].part = <<>>
           /\ rendered[i + 2].kind = "span"
           /\ rendered[i + 2].part = <<"[", "2", "]">>

(***************************************************************************)
(* Termination of the chunker                                              *)
(***************************************************************************)
\* C20: chunkText returns for every text, every chunkSize >= 0 and every
\* chunkOverlap >= 0: no call is left in a loop that never ends.
C20_ChunkTextReturns ==
    cpc # "hung"

(***************************************************************************)
(* Properties of the merge pass and of the offsets                         *)
(***************************************************************************)
IsSuffix(a, b) == Len(a) <= Len(b) /\ SubSeq(b, Len(b) - Len(a) + 1, Len(b)) = a

\* in chunk b the suffix of length n comes just after a sentence ending
AfterSentenceEnd(b, n) ==
    \E e \in 1..Len(SentenceEnds) : OccursAt(b, SentenceEnds[e], Len(b) - n - 1)

C22_OverlapBelowChunkSize ==
    cpc = "chunked" =>
        \A i \in 1..Len(closes) : Len(closes[i].carried) < chunkSize

\* chunks were closed in a call with chunkOverlap >= chunkSize
C22_Witness ==
    /\ cpc = "chunked"
    /\ chunkOverlap >= chunkSize
    /\ Len(closes) >= 2

\* C23: in every result of chunkText each startChar is >= 0 and startChar
\* never decreases from one chunk to the next.
C23_OffsetsForward ==
    cpc = "chunked" =>
        /\ \A i \in 1..Len(result) : result[i].startChar >= 0
        /\ \A i \in 1..(Len(result) - 1) : result[i].startChar <= result[i + 1].startChar

(***************************************************************************)
(* Further properties of the preprocessor                                  *)
(***************************************************************************)
\* C24: the output of preprocessText never contains three or more
\* consecutive newline characters.
C24_NoThreeNewlines ==
    cpc = "once" =>
        \A i \in 1..(Len(processedText) - 2) :
            ~(processedText[i] = NL /\ processedText[i + 1] = NL /\ processedText[i + 2] = NL)

(***************************************************************************)
(* Further properties of document processing                               *)
(***************************************************************************)
\* ordinals of the rows that request h has stored
StoredBy(h) == { e.chunk_index : e \in {r \in embeddings : r.request = h} }

\* C25: the ordinals one run has stored always form a prefix 0..j-1 (after a
\* failure at ordinal k the run stores no ordinal >= k), and no stored row is
\* removed or changed.
C25_RunStoresPrefix ==
    /\ \A h \in DOMAIN dpc : StoredBy(h) = 0..(Cardinality(StoredBy(h)) - 1)
    /\ \A h \in DOMAIN failed :
           failed[h].what \in {"embed", "store"} =>
               \A n \in StoredBy(h) : n < failed[h].at - 1

(***************************************************************************)
(* Further properties of the chat handler                                  *)
(***************************************************************************)
\* C26: a request whose similarity search failed streams no answer and does
\* not end with done.
C26_SearchFailureSurfaced ==
    searchError => OfType(events, "chunk") = <<>> /\ ~EndsWith("done")

(***************************************************************************)
(* Further properties of the chunker                                       *)
(***************************************************************************)
\* C29: for chunkSize >= 1 every chunk returned by chunkText is at most
\* chunkSize + chunkOverlap + 1 characters long, and every raw piece of
\* recursiveSplit is at most chunkSize characters long.
C29_ChunkLengthBounded ==
    (cpc = "chunked" /\ chunkSize >= 1) =>
        /\ \A i \in 1..Len(result) :
               Len(result[i].content) <= chunkSize + chunkOverlap + 1
        /\ \A i \in 1..Len(rawChunks) : Len(rawChunks[i]) <= chunkSize

\* a chunk of exactly chunkSize + chunkOverlap + 1 characters, made of carried
\* text, a newline and a raw piece of chunkSize characters
C29_Witness ==
    /\ cpc = "chunked"
    /\ chunkSize >= 1
    /\ chunkOverlap >= 1
    /\ \E i \in 1..Len(result) : Len(result[i].content) = chunkSize + chunkOverlap + 1
    /\ \E i \in 1..Len(rawChunks) : Len(rawChunks[i]) = chunkSize

(***************************************************************************)
(* History block of the prompt (route.ts:147-156)                          *)
(***************************************************************************)
\* longest conversation history of a request
MaxHistory == 11

\* route.ts:150  slice(-10)
HistoryLimit == 10

\* entries a request body can carry: the two roles the client sends and one
\* that is neither
HistoryEntries ==
    { [role |-> "user", content |-> <<"a">>],
      [role |-> "assistant", content |-> <<"b">>],
      [role |-> "system", content |-> <<"a">>] }

\* chat-interface.tsx:17: the roles of the messages of the transcript
ClientRoles == {"user", "assistant"}

\* mutant: the first entries are taken, slice(0, 10)
recentHistory_First(h) == SubSeq(h, 1, Min(Len(h), HistoryLimit))

\* route.ts:150  conversationHistory.slice(-10)
recentHistory(h) == SubSeq(h, Max(1, Len(h) - HistoryLimit + 1), Len(h))

\* route.ts:153  `${msg.role === 'user' ? 'User' : 'Assistant'}: ${msg.content}`
HistoryLine(msg) ==
    (IF msg.role = "user" THEN <<"U", "s", "e", "r">>
     ELSE <<"A", "s", "s", "i", "s", "t", "a", "n", "t">>)
    \o <<":", SP>> \o msg.content

\* Array.prototype.join('\n')
RECURSIVE JoinLines(_)
JoinLines(ls) ==
    IF ls = <<>> THEN <<>>
    ELSE IF Len(ls) = 1 THEN Head(ls)
    ELSE Head(ls) \o <<NL>> \o JoinLines(Tail(ls))

\* route.ts:148-156
BuildHistoryContext(h) ==
    IF Len(h) > 0
    THEN JoinLines([i \in 1..Len(recentHistory(h)) |-> HistoryLine(recentHistory(h)[i])])
    ELSE <<>>

HistInit ==
    /\ hpc = "request"
    /\ conversationHistory = <<>>
    /\ historyContext = <<>>
    /\ ChatIdle
    /\ ChunkIdle
    /\ DocIdle
    /\ CiteIdle
    /\ UploadIdle
    /\ ReaderIdle

\* chat-interface.tsx:190-193: the client sends the messages of its transcript,
\* one entry per message; an entry of another role is drawn in the first
\* place only, which keeps the histories few
AddHistoryEntry ==
    /\ hpc = "request"
    /\ Len(conversationHistory) < MaxHistory
    /\ \E e \in HistoryEntries :
         /\ e.role \in ClientRoles \/ conversationHistory = <<>>
         /\ conversationHistory' = Append(conversationHistory, e)
    /\ UNCHANGED <<hpc, historyContext>>
    /\ UNCHANGED nonHistVars

\* route.ts:148-156
BuildHistory ==
    /\ hpc = "request"
    /\ hpc' = "built"
    /\ historyContext' = BuildHistoryContext(conversationHistory)
    /\ UNCHANGED conversationHistory
    /\ UNCHANGED nonHistVars

HistNext == AddHistoryEntry \/ BuildHistory

SpecHistory == HistInit /\ [][HistNext]_vars

\* C27: the history block holds the last 10 entries of the history (all of
\* them when there are 10 or fewer), in their order, one line '<Role>: <content>'
\* per entry, Role being User for role user and Assistant otherwise.
C27_HistoryLastTen ==
    hpc = "built" =>
        LET n == Len(conversationHistory)
            m == IF n <= 10 THEN n ELSE 10
            ls == Split(historyContext, <<NL>>)
        IN  IF n = 0 THEN historyContext = <<>>
            ELSE /\ Len(ls) = m
                 /\ \A i \in 1..m :
                      LET e == conversationHistory[n - m + i]
                      IN  \/ /\ e.role = "user"
                             /\ ls[i] = <<"U", "s", "e", "r", ":", SP>> \o e.content
                          \/ /\ e.role # "user"
                             /\ ls[i] = <<"A", "s", "s", "i", "s", "t", "a", "n", "t", ":", SP>>
                                        \o e.content

\* a history of more than 10 entries whose oldest entry differs from the
\* oldest one kept
C27_Witness ==
    /\ hpc = "built"
    /\ Len(conversationHistory) > 10
    /\ conversationHistory[1] # conversationHistory[Len(conversationHistory) - 9]

(***************************************************************************)
(* Upload of a selection of files (document-upload.tsx)                    *)
(***************************************************************************)
\* largest selection of files
MaxFiles == 3

\* document-upload.tsx:36 tempId and the id of the record created for the
\* n-th file; the clock differs from one file to the next
TempId(n) == <<"temp", n>>
DocumentId(n) == <<"doc", n>>

\* outcomes of the processing request: response.ok, a response that is not
\* ok, a rejected fetch
ProcessOutcomes == {"ok", "notOk", "throw"}

\* prev.map(f => f.id === id ? { ...f, ...change } : f)
UpdateRows(rows, id, newId, status) ==
    [i \in DOMAIN rows |->
        IF rows[i].id = id THEN [rows[i] EXCEPT !.id = newId, !.status = status]
        ELSE rows[i]]

\* document-upload.tsx:107-117 and 152-154: the catch of uploadFile marks the
\* row whose id is tempId and rethrows; handleFileSelect logs and goes on
CatchUpload(n) ==
    /\ uploadedFiles' = UpdateRows(uploadedFiles, TempId(n), TempId(n), "error")
    /\ upc' = "next"

UploadInit ==
    /\ upc = "next"
    /\ files \in 1..MaxFiles
    /\ fileNo = 0
    /\ uploadedFiles = <<>>
    /\ ChatIdle
    /\ ChunkIdle
    /\ DocIdle
    /\ CiteIdle
    /\ HistIdle
    /\ ReaderIdle

\* document-upload.tsx:149-151 and 31-46: the next file of the selection; its
\* row is shown with status uploading
BeginUpload ==
    /\ upc = "next"
    /\ fileNo < files
    /\ fileNo' = fileNo + 1
    /\ uploadedFiles' = Append(uploadedFiles, [id |-> TempId(fileNo + 1), status |-> "uploading"])
    /\ upc' = "storage"
    /\ UNCHANGED files
    /\ UNCHANGED nonUploadVars

\* document-upload.tsx:50-54
StorageUpload ==
    /\ upc = "storage"
    /\ \E o \in Outcomes :
         IF o = "ok" THEN upc' = "record" /\ UNCHANGED uploadedFiles
         ELSE CatchUpload(fileNo)
    /\ UNCHANGED <<files, fileNo>>
    /\ UNCHANGED nonUploadVars

\* document-upload.tsx:57-79
CreateRecord ==
    /\ upc = "record"
    /\ \E o \in Outcomes :
         IF o = "ok"
         THEN /\ uploadedFiles' = UpdateRows(uploadedFiles, TempId(fileNo),
                                             DocumentId(fileNo), "processing")
              /\ upc' = "process"
         ELSE CatchUpload(fileNo)
    /\ UNCHANGED <<files, fileNo>>
    /\ UNCHANGED nonUploadVars

\* document-upload.tsx:81-105
TriggerProcessing ==
    /\ upc = "process"
    /\ \E o \in ProcessOutcomes :
         IF o = "ok"
         THEN /\ uploadedFiles' = UpdateRows(uploadedFiles, DocumentId(fileNo),
                                             DocumentId(fileNo), "ready")
              /\ upc' = "next"
         ELSE CatchUpload(fileNo)
    /\ UNCHANGED <<files, fileNo>>
    /\ UNCHANGED nonUploadVars

\* document-upload.tsx:158-161: the loop over the selection has ended
FinishSelection ==
    /\ upc = "next"
    /\ fileNo = files
    /\ upc' = "finished"
    /\ UNCHANGED <<files, fileNo, uploadedFiles>>
    /\ UNCHANGED nonUploadVars

UploadNext ==
    \/ BeginUpload
    \/ StorageUpload
    \/ CreateRecord
    \/ TriggerProcessing
    \/ FinishSelection

SpecUpload == UploadInit /\ [][UploadNext]_vars

\* C28: once uploadFile has returned or thrown for a file its row shows ready
\* or error, and when the selection has been gone through every file of it has
\* a row.
C28_EveryFileTerminal ==
    /\ upc \in {"next", "finished"} =>
          \A i \in 1..Len(uploadedFiles) : uploadedFiles[i].status \in {"ready", "error"}
    /\ upc = "finished" => Len(uploadedFiles) = files

(***************************************************************************)
(* Reader of the event stream (chat-interface.tsx handleSubmit) and the    *)
(* framing of the events by the server (route.ts:213-259)                  *)
(***************************************************************************)
\* most chunk events of a response
MaxWireChunks == 2

\* texts of the chunk events
WireTexts == {<<"a">>, <<"b">>}

\* lists of sources of the metadata event; a source is written by its number
WireSources == {<<>>, <<1>>}

WireMetadata(srcs) == [type |-> "metadata", text |-> <<>>, sources |-> srcs]
WireChunk(t) == [type |-> "chunk", text |-> t, sources |-> <<>>]
WireDone == [type |-> "done", text |-> <<>>, sources |-> <<>>]
\* route.ts:258  message: 'Streaming failed'
WireError == [type |-> "error", text |-> <<"S", "t", "r", "e", "a", "m", "i", "n", "g", SP,
                                            "f", "a", "i", "l", "e", "d">>,
               sources |-> <<>>]

WireEvents ==
    {WireMetadata(srcs) : srcs \in WireSources}
    \cup {WireChunk(t) : t \in WireTexts}
    \cup {WireDone, WireError}

\* the decimal digits, in order
DigitChars == <<"0", "1", "2", "3", "4", "5", "6", "7", "8", "9">>

\* JSON.stringify of a list of sources, between the brackets
RECURSIVE StringifySources(_)
StringifySources(srcs) ==
    IF srcs = <<>> THEN <<>>
    ELSE
         <<"{", "\"", "n", "u", "m", "b", "e", "r", "\"", ":">>
         \o <<DigitChars[Head(srcs) + 1], "}">>
         \o (IF Len(srcs) > 1 THEN <<",">> ELSE <<>>)
         \o StringifySources(Tail(srcs))

\* JSON.stringify of the events of route.ts:217-223, 233, 254 and 258
Stringify(ev) ==
    IF ev.type = "metadata" THEN
        <<"{", "\"", "t", "y", "p", "e", "\"", ":", "\"", "m", "e", "t", "a", "d", "a",
          "t", "a", "\"", ",", "\"", "c", "h", "a", "t", "I", "d", "\"", ":", "\"",
          "c", "\"", ",", "\"", "s", "o", "u", "r", "c", "e", "s", "\"", ":", "[">>
        \o StringifySources(ev.sources)
        \o
        <<"]", ",", "\"", "h", "a", "s", "D", "o", "c", "u", "m", "e", "n", "t", "s",
          "\"", ":">>
        \o (IF ev.sources # <<>> THEN <<"t", "r", "u", "e">> ELSE <<"f", "a", "l", "s", "e">>)
        \o <<"}">>
    ELSE IF ev.type = "chunk" THEN
        <<"{", "\"", "t", "y", "p", "e", "\"", ":", "\"", "c", "h", "u", "n", "k",
          "\"", ",", "\"", "t", "e", "x", "t", "\"", ":", "\"">>
        \o ev.text \o <<"\"", "}">>
    ELSE IF ev.type = "done" THEN
        <<"{", "\"", "t", "y", "p", "e", "\"", ":", "\"", "d", "o", "n", "e", "\"",
          "}">>
    ELSE
        <<"{", "\"", "t", "y", "p", "e", "\"", ":", "\"", "e", "r", "r", "o", "r",
          "\"", ",", "\"", "m", "e", "s", "s", "a", "g", "e", "\"", ":", "\"">>
        \o ev.text \o <<"\"", "}">>

\* 'data: '
DataPrefix == <<"d", "a", "t", "a", ":", SP>>

\* route.ts:223, 233, 254, 258  `data: ${JSON.stringify(...)}\n\n`
Frame(ev) == DataPrefix \o Stringify(ev) \o <<NL, NL>>

RECURSIVE Frames(_)
Frames(evs) == IF evs = <<>> THEN <<>> ELSE Frame(Head(evs)) \o Frames(Tail(evs))

\* what JSON.parse throws on
Invalid == [type |-> "invalid", text |-> <<>>, sources |-> <<>>]

\* the JSON text of every event
WireTable == [ev \in WireEvents |-> Stringify(ev)]

\* JSON.parse: the event whose JSON text is body, Invalid when body is the
\* JSON text of none
JSONparse(body) ==
    IF \E ev \in WireEvents : WireTable[ev] = body
    THEN CHOOSE ev \in WireEvents : WireTable[ev] = body
    ELSE Invalid

\* 'Error: '
ErrorPrefix == <<"E", "r", "r", "o", "r", ":", SP>>

\* chat-interface.tsx:229-264: one line of a read; st holds the assistant
\* message, the local sources and the types handled so far
HandleLine(st, line) ==
    IF ~OccursAt(line, DataPrefix, 1) THEN st
    ELSE LET data == JSONparse(From(line, Len(DataPrefix) + 1))
         IN  IF data.type = "metadata"
             THEN [st EXCEPT !.sources = data.sources, !.handled = Append(@, "metadata")]
             ELSE IF data.type = "chunk"
             THEN [st EXCEPT !.message.content = @ \o data.text,
                             !.handled = Append(@, "chunk")]
             ELSE IF data.type = "done"
             THEN [st EXCEPT !.message.sources = st.sources, !.handled = Append(@, "done")]
             ELSE IF data.type = "error"
             THEN [st EXCEPT !.message.content = ErrorPrefix \o data.text,
                             !.handled = Append(@, "error")]
             ELSE st

\* index of the first newline of s[from..n], n + 1 when there is none
NextNewline(s, from, n) ==
    LET nls == {j \in from..n : s[j] = NL}
    IN  IF nls = {} THEN n + 1 ELSE CHOOSE j \in nls : \A j2 \in nls : j <= j2

\* chat-interface.tsx:226-228  chunk.split('\n') and the loop over the lines,
\* for the read s[1..n] from its index from on
RECURSIVE HandleLines(_, _, _, _)
HandleLines(st, s, from, n) ==
    LET end == NextNewline(s, from, n)
        after == HandleLine(st, SubSeq(s, from, end - 1))
    IN  IF end > n THEN after ELSE HandleLines(after, s, end + 1, n)

\* responses the server can write: the metadata event, chunk events, and done
\* or, when the streaming failed, error
ServerStreams ==
    { <<WireMetadata(srcs)>> \o [i \in DOMAIN ts |-> WireChunk(ts[i])] \o <<last>> :
        srcs \in WireSources, ts \in SeqsUpTo(WireTexts, MaxWireChunks),
        last \in {WireDone, WireError} }

ReaderInit ==
    /\ kpc = "reading"
    /\ sent \in ServerStreams
    /\ wire = Frames(sent)
    /\ assistantMessage = [content |-> <<>>, sources |-> <<>>]
    /\ clientSources = <<>>
    /\ handled = <<>>
    /\ ChatIdle
    /\ ChunkIdle
    /\ DocIdle
    /\ CiteIdle
    /\ HistIdle
    /\ UploadIdle

\* chat-interface.tsx:221-264: one read of n characters and the handling of
\* its lines
Read ==
    /\ kpc = "reading"
    /\ wire # <<>>
    /\ \E n \in 1..Len(wire) :
         LET st == HandleLines([message |-> assistantMessage, sources |-> clientSources,
                                handled |-> handled],
                               wire, 1, n)
         IN  /\ assistantMessage' = st.message
             /\ clientSources' = st.sources
             /\ handled' = st.handled
             /\ wire' = From(wire, n + 1)
    /\ UNCHANGED <<kpc, sent>>
    /\ UNCHANGED nonReaderVars

\* chat-interface.tsx:222-223: the read that reports the end of the body
ReadEnd ==
    /\ kpc = "reading"
    /\ wire = <<>>
    /\ kpc' = "closed"
    /\ UNCHANGED <<sent, wire, assistantMessage, clientSources, handled>>
    /\ UNCHANGED nonReaderVars

ReaderNext == Read \/ ReadEnd

SpecReader == ReaderInit /\ [][ReaderNext]_vars

RECURSIVE SentTexts(_)
SentTexts(evs) ==
    IF evs = <<>> THEN <<>>
    ELSE (IF Head(evs).type = "chunk" THEN Head(evs).text ELSE <<>>) \o SentTexts(Tail(evs))

\* C30: however the body is divided into reads, once the done event has been
\* handled the assistant message shown is the concatenation, in order, of the
\* texts of the chunk events sent, and its sources are those of the metadata
\* event.
C30_ReadsReassembled ==
    (\E i \in 1..Len(handled) : handled[i] = "done") =>
        /\ assistantMessage.content = SentTexts(sent)
        /\ assistantMessage.sources = sent[1].sources

====
